---- MODULE Spec2Model ----
(***************************************************************************)
(* prd-parser: the parse command (cmd/parse.go), the multi-stage parser    *)
(* (internal/core/multistage.go), its Claude CLI generator and the         *)
(* structural reviewer's merge, as state machines.                         *)
(***************************************************************************)
EXTENDS Integers, Sequences, FiniteSets, TLC

(***************************************************************************)
(* Bounds of the model.                                                    *)
(***************************************************************************)
\* most epics a stage-1 answer carries
MaxEpics == 4
\* most stage-3 work items of one run (epics times tasks per epic)
MaxTaskRefs == 6
\* most tasks one GenerateTasks answer carries
MaxTasksPer == 2
\* most subtasks one GenerateSubtasks answer carries
MaxSubsPer == 1
\* subtasks per answer in the runs whose metadata totals are compared
MaxCountedSubs == 2
\* most epics of a tree handed to the reviewer
MaxOrigEpics == 2
\* most tasks per epic of a tree handed to the reviewer
MaxOrigTasks == 2
\* most epics of a reviewer skeleton
MaxRevEpics == 2
\* most epics, and most tasks per epic, of a tree handed to Validate on its own
MaxValEpics == 2
MaxValTasks == 1
\* characters in the text the gap-validation call returns
MaxTextLen == 3
\* characters of a PRD text, and the largest --smart-threshold
MaxPrdLen == 4
MaxThreshold == 3
\* characters of a capability output handed to the JSON extraction
MaxRawLen == 5

(***************************************************************************)
(* Program constants.                                                      *)
(***************************************************************************)
\* sem := make(chan struct{}, 3) in generateTasksParallel
Stage2Limit == 3
\* sem := make(chan struct{}, 5) in generateSubtasksParallel
Stage3Limit == 5
\* for attempt := 0; attempt < 2; attempt++ in MultiStageGenerator.GenerateSubtasks
Stage3Attempts == 2
\* const maxRetries = 3 of the single-shot ClaudeCLIAdapter.Generate
maxRetries == 3

\* a nil error, and a nil *ParseResponse
NoErr == [kind |-> "nil"]
Nil == [nil |-> TRUE]

VARIABLES
    gen,        \* the Generator behind MultiStageParser: "cli" or "stub"
    tasksPer,   \* tasks a successful GenerateTasks answer of this run carries
    subsPer,    \* subtasks a successful GenerateSubtasks answer of this run carries
    pc,         \* position of runParse / MultiStageParser.Parse
    epicsResp,  \* stage-1 answer: the epic summaries
    w2,         \* stage-2 goroutines: "wait" (before sem), "call", "done"
    epics,      \* generateTasksParallel's result slots
    errs2,      \* generateTasksParallel's error slots
    calls2,     \* per stage-2 worker, the epics it asked GenerateTasks about
    taskRefs,   \* generateSubtasksParallel's flattened work items
    w3,         \* stage-3 goroutines: "wait", "call", "done"
    calls3,     \* capability calls issued so far per stage-3 work item
    results3,   \* generateSubtasksParallel's result slots
    errs3,      \* generateSubtasksParallel's error slots
    out,        \* what Parse / the chosen generation path returned
    sink,       \* the tree handed to CreateItems (Nil before)
    ssCalls,    \* capability calls the single-shot adapter has issued
    log2,       \* history: answers of the GenerateTasks calls, per epic temp id
    log3,       \* history: answers of the GenerateSubtasks calls, per task temp id
    rpc,        \* position of ReviewAndFix: "off", "idle", "returned" ("merged":
                \* mergeReviewedStructure called on its own has returned)
    orig,       \* the tree ReviewAndFix is given (the storage behind response)
    reviewed,   \* the reviewer's parsed answer, a RawReviewResponse
    merged,     \* what mergeReviewedStructure returned
    review,     \* what ReviewAndFix returned: a ReviewResult and an error
    log1,       \* history: epics the stage-1 answer carried (-1: no answer parsed)
    ctx,        \* the context handed to Parse: cancelled or not, and what was pending
    lateCalls,  \* history: capability calls started after the context was cancelled
    gap,        \* the gap-validation pass of runParse: "none" before, then its outcome
    created,    \* what CreateItems returned (Nil before)
    checkpoint, \* the tree in the checkpoint file runParse wrote (Nil: no file)
    cfg,        \* strategy inputs of runParse: flags, threshold and the PRD text
    strategy,   \* the strategy runParse chose ("none" before)
    vtree,      \* a tree handed to ParseResponse.Validate
    verr,       \* what Validate returned for vtree (Nil before the call)
    flags,      \* runParse's --validate, --save-json and --output for this run
    raw,        \* a capability output handed to the JSON extraction (Nil: none)
    extracted,  \* what the extraction and the Unmarshal after it gave (Nil before)
    ipc,        \* position of InteractiveParser.Parse ("off": not in play)
    reviewEpics, \* the epics of interactiveEpicReview's loop
    choice      \* the last choice read by the loop and what became of it

vars == <<gen, tasksPer, subsPer, pc, epicsResp, w2, epics, errs2, calls2, taskRefs,
          w3, calls3, results3, errs3, out, sink, ssCalls, log2, log3,
          rpc, orig, reviewed, merged, review,
          log1, ctx, lateCalls, gap, created, checkpoint, cfg, strategy, vtree, verr,
          flags, raw, extracted, ipc, reviewEpics, choice>>

(***************************************************************************)
(* Hierarchy data model (internal/core types) and ParseResponse.Validate.  *)
(* Temp ids are tuples: epic <<1>>, task <<1, 1>>, subtask <<1, 1, 1>>.    *)
(***************************************************************************)
Subtask(id) == [TempID |-> id, Title |-> "S"]

Task(id, title, subtasks, deps) ==
    [TempID |-> id, Title |-> title, Description |-> <<"desc", id>>,
     Testing |-> <<"testing", id>>, Subtasks |-> subtasks, DependsOn |-> deps]

Epic(id, title, tasks, deps) ==
    [TempID |-> id, Title |-> title, Description |-> <<"desc", id>>,
     AcceptanceCriteria |-> <<"criteria", id>>, Tasks |-> tasks, DependsOn |-> deps]

\* the zero value of a Go Epic, what make([]Epic, n) fills the slots with
ZeroEpic ==
    [TempID |-> <<>>, Title |-> "", Description |-> <<>>,
     AcceptanceCriteria |-> <<>>, Tasks |-> <<>>, DependsOn |-> <<>>]

\* of the fields besides the product name the model keeps the pitch and the
\* tech stack, with the content stage 1 extracted from the PRD
ProjectContext(name) ==
    [ProductName |-> name, ElevatorPitch |-> "pitch", TechStack |-> <<"go">>]

ResponseMetadata(e, t, s) == [TotalEpics |-> e, TotalTasks |-> t, TotalSubtasks |-> s]

ParseResponse(project, eps, meta) == [Project |-> project, Epics |-> eps, Metadata |-> meta]

\* the sequences over S of length n at most
SeqsUpTo(S, n) == UNION {[1..m -> S] : m \in 0..n}

RECURSIVE SumSeq(_)
SumSeq(s) == IF Len(s) = 0 THEN 0 ELSE Head(s) + SumSeq(Tail(s))

\* totalTasks += len(epic.Tasks)
CountTasks(eps) == SumSeq([i \in DOMAIN eps |-> Len(eps[i].Tasks)])

\* totalSubtasks += len(task.Subtasks)
CountSubtasks(eps) ==
    SumSeq([i \in DOMAIN eps |->
              SumSeq([j \in DOMAIN eps[i].Tasks |-> Len(eps[i].Tasks[j].Subtasks)])])

\* &ValidationError{Field: ...}; i and j are the 0-based indices of the path
ValidationError(field, i, j) == [kind |-> "validation", Field |-> field, i |-> i, j |-> j]

\* a task check that accepts a task without subtasks
ValidateTaskTitleOnly(task, i, j) ==
    IF task.Title = "" THEN ValidationError("epics[i].tasks[j].title", i, j)
    ELSE NoErr

\* the checks of one task, in the order of the code
ValidateTask(task, i, j) ==
    IF task.Title = "" THEN ValidationError("epics[i].tasks[j].title", i, j)
    ELSE IF Len(task.Subtasks) = 0 THEN ValidationError("epics[i].tasks[j].subtasks", i, j)
    ELSE NoErr

\* an epic check that looks at the task list before the title
ValidateEpicTasksFirst(epic, i) ==
    IF Len(epic.Tasks) = 0 THEN ValidationError("epics[i].tasks", i, -1)
    ELSE IF epic.Title = "" THEN ValidationError("epics[i].title", i, -1)
    ELSE LET bad == {j \in DOMAIN epic.Tasks : ValidateTask(epic.Tasks[j], i, j - 1) # NoErr}
         IN  IF bad = {} THEN NoErr
             ELSE LET j == CHOOSE k \in bad : \A m \in bad : k <= m
                  IN  ValidateTask(epic.Tasks[j], i, j - 1)

\* the checks of one epic: title, tasks non-empty, then its tasks in order
ValidateEpic(epic, i) ==
    IF epic.Title = "" THEN ValidationError("epics[i].title", i, -1)
    ELSE IF Len(epic.Tasks) = 0 THEN ValidationError("epics[i].tasks", i, -1)
    ELSE LET bad == {j \in DOMAIN epic.Tasks : ValidateTask(epic.Tasks[j], i, j - 1) # NoErr}
         IN  IF bad = {} THEN NoErr
             ELSE LET j == CHOOSE k \in bad : \A m \in bad : k <= m
                  IN  ValidateTask(epic.Tasks[j], i, j - 1)

\* ParseResponse.Validate: the first violation in checking order, or nil
Validate(r) ==
    IF r.Project.ProductName = "" THEN ValidationError("project.product_name", -1, -1)
    ELSE IF Len(r.Epics) = 0 THEN ValidationError("epics", -1, -1)
    ELSE LET bad == {i \in DOMAIN r.Epics : ValidateEpic(r.Epics[i], i - 1) # NoErr}
         IN  IF bad = {} THEN NoErr
             ELSE LET i == CHOOSE k \in bad : \A m \in bad : k <= m
                  IN  ValidateEpic(r.Epics[i], i - 1)

\* P1 of the design: every epic has a task and every task a subtask
NonEmptyChildren(r) ==
    \A i \in DOMAIN r.Epics :
        /\ Len(r.Epics[i].Tasks) > 0
        /\ \A j \in DOMAIN r.Epics[i].Tasks : Len(r.Epics[i].Tasks[j].Subtasks) > 0

(***************************************************************************)
(* The Generator behind MultiStageParser.  "cli" is MultiStageGenerator    *)
(* (one Claude CLI call per attempt, then extractJSON and json.Unmarshal); *)
(* "stub" is any other implementation of the core.Generator interface,     *)
(* which may return an empty list together with a nil error.  An outcome   *)
(* is what one capability call yields.                                     *)
(***************************************************************************)
Generators == {"cli", "stub"}

Outcomes(g) ==
    IF g = "cli" THEN {"callerr", "unparsable", "empty", "ok"}
    ELSE {"callerr", "empty", "ok"}

\* an error of the generator; of its text the model keeps the stage and the
\* temp id of the unit of work, not the cause
GenError(stage, id) == [kind |-> "generator", stage |-> stage, id |-> id]

\* ctx.Err() as callClaude returns it: "claude CLI failed: %w" around
\* context.Canceled, for the unit of work with this temp id
Cancelled(stage, id) == [kind |-> "cancelled", stage |-> stage, id |-> id]

\* a command that is started whatever the state of its context
StartsProcessAlways(g, c) == TRUE

\* cmd.Output() of exec.CommandContext(ctx, "claude", ...): with the context
\* already done no process is started and the context's error comes back.
\* Another Generator is handed the context and is free to ignore it.
StartsProcess(g, c) == g # "cli" \/ ~c.cancelled

\* the count of calls started after the cancellation, one more call started
CountLate(c, n) == IF c.cancelled THEN n + 1 ELSE n

EpicSummary(i) == [TempID |-> <<i>>, Title |-> "E"]

\* the rejections every stage of MultiStageGenerator shares: the CLI call failed
\* ("callerr"), extractJSON found no span or json.Unmarshal failed ("unparsable")
CallFailed(outcome) == outcome \in {"callerr", "unparsable"}

\* a stage 1 that accepts an answer without epics
GenerateEpicsUnchecked(g, outcome, n) ==
    IF CallFailed(outcome)
    THEN [resp |-> Nil, err |-> GenError(1, <<>>)]
    ELSE [resp |-> [Project |-> ProjectContext("P"), Epics |-> [i \in 1..n |-> EpicSummary(i)]],
          err |-> NoErr]

\* GenerateEpics: n is the number of epics the answer carries
GenerateEpics(g, outcome, n) ==
    LET resp == [Project |-> ProjectContext("P"), Epics |-> [i \in 1..n |-> EpicSummary(i)]]
    IN  IF CallFailed(outcome) \/ (g = "cli" /\ n = 0)
        THEN [resp |-> Nil, err |-> GenError(1, <<>>)]
        ELSE [resp |-> resp, err |-> NoErr]

\* the tasks an answer for this epic carries: temp ids <<e, 1>>, <<e, 2>>, ...
TasksFor(epic, k) == [j \in 1..k |-> Task(epic.TempID \o <<j>>, "T", <<>>, <<>>)]

\* GenerateTasks: one call, no retry
GenerateTasks(g, epic, outcome, k) ==
    LET n == IF outcome = "empty" THEN 0 ELSE k
    IN  IF CallFailed(outcome) \/ (g = "cli" /\ n = 0)
        THEN [tasks |-> <<>>, err |-> GenError(2, epic.TempID)]
        ELSE [tasks |-> TasksFor(epic, n), err |-> NoErr]

SubtasksFor(task, m) == [x \in 1..m |-> Subtask(task.TempID \o <<x>>)]

\* the loop condition of GenerateSubtasks, tested after attempt++:
\* made is the number of attempts already made
AnotherAttempt(made) == made < Stage3Attempts

\* one attempt of GenerateSubtasks: made counts the capability calls issued so far,
\* this one included.  "retry" is the loop's continue with another attempt to go.
GenerateSubtasksAttempt(g, task, outcome, m, made) ==
    LET n == IF outcome = "empty" THEN 0 ELSE m
        lastErr == GenError(3, task.TempID)
    IN  IF g = "stub"
        THEN IF outcome = "callerr"
             THEN [next |-> "return", subtasks |-> <<>>, err |-> lastErr]
             ELSE [next |-> "return", subtasks |-> SubtasksFor(task, n), err |-> NoErr]
        ELSE IF ~CallFailed(outcome) /\ n > 0
             THEN [next |-> "return", subtasks |-> SubtasksFor(task, n), err |-> NoErr]
             ELSE IF AnotherAttempt(made)
                  THEN [next |-> "retry", subtasks |-> <<>>, err |-> lastErr]
                  ELSE [next |-> "return", subtasks |-> <<>>, err |-> lastErr]

(***************************************************************************)
(* MultiStageParser: the fan-out helpers.                                  *)
(***************************************************************************)
\* a semaphore that never blocks
CanAcquireUnbounded(held, limit) == TRUE

\* sem <- struct{}{} goes through while fewer than limit goroutines hold a slot
CanAcquire(held, limit) == held < limit

\* a goroutine that keeps its slot after its call: the release is missing
HoldingUnreleased(w) == Cardinality({i \in DOMAIN w : w[i] # "wait"})

\* the goroutines between sem <- struct{}{} and the deferred <-sem
Holding(w) == Cardinality({i \in DOMAIN w : w[i] = "call"})

\* a wait that returns as soon as one goroutine is done
WaitAnyDone(w) == \E i \in DOMAIN w : w[i] = "done"

\* wg.Wait() returns once every goroutine has run wg.Done()
WaitDone(w) == \A i \in DOMAIN w : w[i] = "done"

\* results appended in completion order instead of written by index
SlotByCompletion(idx, w) == Cardinality({i \in DOMAIN w : w[i] = "done"}) + 1

\* the slot a worker writes: its own index
Slot(idx, w) == idx

\* a goroutine that reads the loop variable after the loop has moved on
SummaryAtLoopEnd(resp, idx) == resp.Epics[Len(resp.Epics)]

\* go func(idx int, es EpicSummary) {...}(i, epicSummary): the goroutine gets
\* its own copy of the summary at its index
SummaryFor(resp, idx) == resp.Epics[idx]

\* the error slots scanned from the end
LastErr(errs) ==
    LET bad == {i \in DOMAIN errs : errs[i] # NoErr}
    IN  IF bad = {} THEN NoErr
        ELSE errs[CHOOSE i \in bad : \A k \in bad : i >= k]

\* for _, err := range errs { if err != nil { return nil, err } }
FirstErr(errs) ==
    LET bad == {i \in DOMAIN errs : errs[i] # NoErr}
    IN  IF bad = {} THEN NoErr
        ELSE errs[CHOOSE i \in bad : \A k \in bad : i <= k]

\* fmt.Errorf("epic %s: %w", ...), fmt.Errorf("stage 2 (tasks) failed: %w", ...)
Wrap(prefix, id, err) == [kind |-> "wrapped", prefix |-> prefix, id |-> id, cause |-> err]

\* what generateTasksParallel and generateSubtasksParallel return after wg.Wait()
FanOutResult(slots, errs) ==
    IF FirstErr(errs) # NoErr
    THEN [epics |-> <<>>, err |-> FirstErr(errs)]
    ELSE [epics |-> slots, err |-> NoErr]

\* a stage error that is dropped
StageNeverFailed(err) == FALSE

\* if err != nil { return nil, fmt.Errorf("stage n failed: %w", err) }
StageFailed(err) == err # NoErr

TaskRef(ei, ti, task) == [epicIdx |-> ei, taskIdx |-> ti, task |-> task]

\* the flattening loop of generateSubtasksParallel, over the first n epics
RECURSIVE CollectRefs(_, _)
CollectRefs(eps, n) ==
    IF n = 0 THEN <<>>
    ELSE CollectRefs(eps, n - 1) \o
         [ti \in DOMAIN eps[n].Tasks |-> TaskRef(n, ti, eps[n].Tasks[ti])]

\* epics[ref.epicIdx].Tasks[ref.taskIdx].Subtasks = results[i], for every ref
AssignSubtasks(eps, refs, results) ==
    [ei \in DOMAIN eps |->
        [eps[ei] EXCEPT !.Tasks =
            [ti \in DOMAIN eps[ei].Tasks |->
                LET i == CHOOSE k \in DOMAIN refs :
                             refs[k].epicIdx = ei /\ refs[k].taskIdx = ti
                IN  [eps[ei].Tasks[ti] EXCEPT !.Subtasks = results[i]]]]]

\* a response whose counts were all taken before stage 3 attached the subtasks
BuildResponseEarlyCounts(project, eps) ==
    ParseResponse(project, eps, ResponseMetadata(Len(eps), CountTasks(eps), 0))

\* the response Parse builds after stage 3
BuildResponse(project, eps) ==
    ParseResponse(project, eps,
                  ResponseMetadata(Len(eps), CountTasks(eps), CountSubtasks(eps)))

(***************************************************************************)
(* Trees that arrive as JSON: a --from-json checkpoint, or the answer of   *)
(* the single-shot call.  json.Unmarshal accepts any of them.              *)
(***************************************************************************)
RawSubtaskSeqs == {<<>>, <<Subtask(<<1, 1, 1>>)>>}

RawTaskSeqs ==
    {<<>>} \cup {<<Task(<<1, 1>>, title, subs, <<>>)>> :
                    title \in {"", "T"}, subs \in RawSubtaskSeqs}

RawEpicSeqs ==
    {<<>>} \cup {<<Epic(<<1>>, title, tasks, <<>>)>> :
                    title \in {"", "E"}, tasks \in RawTaskSeqs}

RawTrees ==
    {ParseResponse(ProjectContext(name), eps, ResponseMetadata(0, 0, 0)) :
        name \in {"", "P"}, eps \in RawEpicSeqs}

\* parseJSONResponse of the single-shot adapter: extraction, Unmarshal, Validate
parseJSONResponse(outcome, tree) ==
    IF outcome = "unparsable"
    THEN [tree |-> Nil, err |-> GenError(0, <<>>)]
    ELSE IF Validate(tree) # NoErr
    THEN [tree |-> Nil, err |-> Wrap("validation failed", <<>>, Validate(tree))]
    ELSE [tree |-> tree, err |-> NoErr]

(***************************************************************************)
(* State machine: runParse, with MultiStageParser.Parse inlined.           *)
(***************************************************************************)
NoResult == [tree |-> Nil, err |-> NoErr]

\* a live context
Background == [cancelled |-> FALSE, stage |-> "none", pending |-> FALSE]

\* the flags as cobra leaves them when none is given: no --validate, no
\* --save-json, --output beads
DefaultFlags == [validate |-> FALSE, saveJSON |-> FALSE, output |-> "beads"]

\* the run-level variables while runParse has not reached its tail
RunAtRest ==
    /\ log1 = -1
    /\ ctx = Background
    /\ lateCalls = 0
    /\ gap = "none"
    /\ created = Nil
    /\ checkpoint = Nil

\* the run-level variables before runParse has done anything, no flag given
RunStart == RunAtRest /\ flags = DefaultFlags

\* the strategy choice and the Validate harness are not in play
StrategyOff == cfg = Nil /\ strategy = "none"
ValidateOff == vtree = Nil /\ verr = Nil
ExtractOff == raw = Nil /\ extracted = Nil
InteractiveOff == ipc = "off" /\ reviewEpics = <<>> /\ choice = Nil

\* runParse before its first step, whatever the answers of the run will carry
InitRun ==
    /\ gen \in Generators
    /\ pc = "start"
    /\ epicsResp = Nil
    /\ w2 = <<>> /\ epics = <<>> /\ errs2 = <<>> /\ calls2 = <<>>
    /\ taskRefs = <<>> /\ w3 = <<>> /\ calls3 = <<>>
    /\ results3 = <<>> /\ errs3 = <<>>
    /\ out = NoResult
    /\ sink = Nil
    /\ ssCalls = 0
    /\ log2 = {} /\ log3 = {}
    /\ rpc = "off"
    /\ orig = Nil /\ reviewed = Nil /\ merged = Nil /\ review = Nil
    /\ RunStart
    /\ StrategyOff
    /\ ValidateOff
    /\ ExtractOff
    /\ InteractiveOff

Init ==
    /\ InitRun
    /\ tasksPer \in 1..MaxTasksPer
    /\ subsPer \in 1..MaxSubsPer

reviewVars == <<rpc, orig, reviewed, merged, review>>
runVars == <<log1, ctx, lateCalls, gap, created, checkpoint>>
tailVars == <<gap, created, checkpoint>>
strategyVars == <<cfg, strategy>>
validateVars == <<vtree, verr>>
extractVars == <<raw, extracted>>
interactiveVars == <<ipc, reviewEpics, choice>>
\* the variables of the other entry points
offPipeline == <<reviewVars, strategyVars, validateVars, extractVars, interactiveVars>>
stage2Vars == <<w2, epics, errs2, calls2, log2>>
stage3Vars == <<taskRefs, w3, calls3, results3, errs3, log3>>
scenario == <<gen, tasksPer, subsPer, flags>>

\* runParse with --from-json: the checkpoint is read and unmarshalled
LoadCheckpoint ==
    /\ pc = "start"
    /\ \E t \in RawTrees :
          out' = [tree |-> t, err |-> NoErr]
    /\ pc' = "create"
    /\ UNCHANGED <<scenario, offPipeline, runVars>>
    /\ UNCHANGED <<epicsResp, stage2Vars, stage3Vars, sink, ssCalls>>

\* runParse chooses multi-stage: parser.Parse begins with stage 1
StartMultiStage ==
    /\ pc = "start"
    /\ pc' = "stage1"
    /\ UNCHANGED <<scenario, offPipeline, runVars>>
    /\ UNCHANGED <<epicsResp, stage2Vars, stage3Vars, out, sink, ssCalls>>

\* runParse chooses single-shot: the adapter issues its first call
StartSingleShot ==
    /\ pc = "start"
    /\ pc' = "single"
    /\ ssCalls' = 1
    /\ UNCHANGED <<scenario, offPipeline, runVars>>
    /\ UNCHANGED <<epicsResp, stage2Vars, stage3Vars, out, sink>>

\* ClaudeCLIAdapter.Generate: one capability call of the retry loop returns
SingleShotAttempt ==
    /\ pc = "single"
    /\ \E outcome \in {"callerr", "unparsable", "ok"}, t \in RawTrees :
          LET r == IF outcome = "callerr"
                   THEN [tree |-> Nil, err |-> GenError(0, <<>>)]
                   ELSE parseJSONResponse(outcome, t)
          IN  IF r.err = NoErr
              THEN /\ out' = r
                   /\ pc' = "generated"
                   /\ UNCHANGED ssCalls
              ELSE IF ssCalls < maxRetries
              THEN /\ ssCalls' = ssCalls + 1
                   /\ UNCHANGED <<out, pc>>
              ELSE /\ out' = [tree |-> Nil, err |-> Wrap("parsing failed", <<>>, r.err)]
                   /\ pc' = "done"
                   /\ UNCHANGED ssCalls
    /\ UNCHANGED <<scenario, offPipeline, runVars>>
    /\ UNCHANGED <<epicsResp, stage2Vars, stage3Vars, sink>>

\* Parse, stage 1: GenerateEpics returns; on success the stage-2 goroutines
\* are started, each waiting for the semaphore
Stage1 ==
    /\ pc = "stage1"
    /\ \E outcome \in Outcomes(gen) \ {"empty"}, n \in 0..MaxEpics :
          LET r == GenerateEpics(gen, outcome, n)
          IN  /\ n * tasksPer <= MaxTaskRefs
              /\ log1' = IF CallFailed(outcome) THEN log1 ELSE n
              /\ IF r.err # NoErr
                 THEN /\ out' = [tree |-> Nil,
                                 err |-> Wrap("stage 1 (epics) failed", <<>>, r.err)]
                      /\ pc' = "done"
                      /\ UNCHANGED <<epicsResp, w2, epics, errs2, calls2>>
                 ELSE /\ epicsResp' = r.resp
                      /\ w2' = [i \in 1..n |-> "wait"]
                      /\ epics' = [i \in 1..n |-> ZeroEpic]
                      /\ errs2' = [i \in 1..n |-> NoErr]
                      /\ calls2' = [i \in 1..n |-> <<>>]
                      /\ pc' = "stage2"
                      /\ UNCHANGED out
    /\ UNCHANGED <<scenario, offPipeline, ctx, lateCalls, tailVars>>
    /\ UNCHANGED <<log2, stage3Vars, sink, ssCalls>>

\* stage-2 goroutine idx: sem <- struct{}{}, then the GenerateTasks call starts
Acquire2(idx) ==
    /\ pc = "stage2"
    /\ w2[idx] = "wait"
    /\ CanAcquire(Holding(w2), Stage2Limit)
    /\ IF StartsProcess(gen, ctx)
       THEN /\ w2' = [w2 EXCEPT ![idx] = "call"]
            /\ calls2' = [calls2 EXCEPT ![idx] = Append(@, SummaryFor(epicsResp, idx).TempID)]
            /\ lateCalls' = CountLate(ctx, lateCalls)
            /\ UNCHANGED errs2
       ELSE LET id == SummaryFor(epicsResp, idx).TempID
            IN  /\ w2' = [w2 EXCEPT ![idx] = "done"]
                /\ errs2' = [errs2 EXCEPT ![Slot(idx, w2)] = Wrap("epic", id, Cancelled(2, id))]
                /\ UNCHANGED <<calls2, lateCalls>>
    /\ UNCHANGED <<scenario, offPipeline, log1, ctx, tailVars>>
    /\ UNCHANGED <<pc, epicsResp, epics, log2, stage3Vars, out, sink, ssCalls>>

\* stage-2 goroutine idx: GenerateTasks returns, the slot is written, the
\* semaphore released and wg.Done() run
Return2(idx) ==
    /\ pc = "stage2"
    /\ w2[idx] = "call"
    /\ \E outcome \in Outcomes(gen) :
          LET es == SummaryFor(epicsResp, idx)
              epic == Epic(es.TempID, es.Title, <<>>, <<>>)
              r == GenerateTasks(gen, epic, outcome, tasksPer)
              slot == Slot(idx, w2)
          IN  IF r.err # NoErr
              THEN /\ errs2' = [errs2 EXCEPT ![slot] = Wrap("epic", es.TempID, r.err)]
                   /\ UNCHANGED <<epics, log2>>
              ELSE /\ epics' = [epics EXCEPT ![slot] = [epic EXCEPT !.Tasks = r.tasks]]
                   /\ log2' = log2 \cup {[epic |-> es.TempID, tasks |-> r.tasks]}
                   /\ UNCHANGED errs2
    /\ w2' = [w2 EXCEPT ![idx] = "done"]
    /\ UNCHANGED <<scenario, offPipeline, runVars>>
    /\ UNCHANGED <<pc, epicsResp, calls2, stage3Vars, out, sink, ssCalls>>

\* generateTasksParallel after wg.Wait(), and Parse up to the start of the
\* stage-3 goroutines
Join2 ==
    /\ pc = "stage2"
    /\ WaitDone(w2)
    /\ LET r == FanOutResult(epics, errs2)
       IN  IF StageFailed(r.err)
           THEN /\ out' = [tree |-> Nil,
                           err |-> Wrap("stage 2 (tasks) failed", <<>>, r.err)]
                /\ pc' = "done"
                /\ UNCHANGED <<epics, taskRefs, w3, calls3, results3, errs3>>
           ELSE LET refs == CollectRefs(r.epics, Len(r.epics))
                IN  /\ epics' = r.epics
                    /\ taskRefs' = refs
                    /\ w3' = [i \in DOMAIN refs |-> "wait"]
                    /\ calls3' = [i \in DOMAIN refs |-> 0]
                    /\ results3' = [i \in DOMAIN refs |-> <<>>]
                    /\ errs3' = [i \in DOMAIN refs |-> NoErr]
                    /\ pc' = "stage3"
                    /\ UNCHANGED out
    /\ UNCHANGED <<scenario, offPipeline, runVars>>
    /\ UNCHANGED <<epicsResp, w2, errs2, calls2, log2, log3, sink, ssCalls>>

\* stage-3 goroutine idx: sem <- struct{}{}, then GenerateSubtasks issues its
\* first capability call
Acquire3(idx) ==
    /\ pc = "stage3"
    /\ w3[idx] = "wait"
    /\ CanAcquire(Holding(w3), Stage3Limit)
    /\ IF StartsProcess(gen, ctx)
       THEN /\ w3' = [w3 EXCEPT ![idx] = "call"]
            /\ calls3' = [calls3 EXCEPT ![idx] = 1]
            /\ lateCalls' = CountLate(ctx, lateCalls)
            /\ UNCHANGED errs3
       ELSE LET id == taskRefs[idx].task.TempID
            IN  /\ w3' = [w3 EXCEPT ![idx] = "done"]
                /\ errs3' = [errs3 EXCEPT ![Slot(idx, w3)] = Wrap("task", id, Cancelled(3, id))]
                /\ UNCHANGED <<calls3, lateCalls>>
    /\ UNCHANGED <<scenario, offPipeline, log1, ctx, tailVars>>
    /\ UNCHANGED <<pc, epicsResp, stage2Vars, taskRefs, results3, log3, out, sink, ssCalls>>

\* stage-3 goroutine idx: a capability call returns; GenerateSubtasks either
\* issues the next attempt or returns, and then the slot is written, the
\* semaphore released and wg.Done() run
Return3(idx) ==
    /\ pc = "stage3"
    /\ w3[idx] = "call"
    /\ \E outcome \in Outcomes(gen) :
          LET task == taskRefs[idx].task
              r == GenerateSubtasksAttempt(gen, task, outcome, subsPer, calls3[idx])
              slot == Slot(idx, w3)
          IN  IF r.next = "retry" /\ StartsProcess(gen, ctx)
              THEN /\ calls3' = [calls3 EXCEPT ![idx] = @ + 1]
                   /\ lateCalls' = CountLate(ctx, lateCalls)
                   /\ UNCHANGED <<w3, results3, errs3, log3>>
              ELSE /\ w3' = [w3 EXCEPT ![idx] = "done"]
                   /\ UNCHANGED <<calls3, lateCalls>>
                   /\ IF r.next = "retry"
                      THEN /\ errs3' = [errs3 EXCEPT ![slot] =
                                           Wrap("task", task.TempID, Cancelled(3, task.TempID))]
                           /\ UNCHANGED <<results3, log3>>
                      ELSE IF r.err # NoErr
                      THEN /\ errs3' = [errs3 EXCEPT ![slot] = Wrap("task", task.TempID, r.err)]
                           /\ UNCHANGED <<results3, log3>>
                      ELSE /\ results3' = [results3 EXCEPT ![slot] = r.subtasks]
                           /\ log3' = log3 \cup {[task |-> task.TempID, subtasks |-> r.subtasks]}
                           /\ UNCHANGED errs3
    /\ UNCHANGED <<scenario, offPipeline, log1, ctx, tailVars>>
    /\ UNCHANGED <<pc, epicsResp, stage2Vars, taskRefs, out, sink, ssCalls>>

\* generateSubtasksParallel after wg.Wait(), and the rest of Parse
Join3 ==
    /\ pc = "stage3"
    /\ WaitDone(w3)
    /\ LET r == FanOutResult(AssignSubtasks(epics, taskRefs, results3), errs3)
       IN  IF StageFailed(r.err)
           THEN /\ out' = [tree |-> Nil,
                           err |-> Wrap("stage 3 (subtasks) failed", <<>>, r.err)]
                /\ pc' = "done"
                /\ UNCHANGED epics
           ELSE /\ epics' = r.epics
                /\ out' = [tree |-> BuildResponse(epicsResp.Project, r.epics), err |-> NoErr]
                /\ pc' = "generated"
    /\ UNCHANGED <<scenario, offPipeline, runVars>>
    /\ UNCHANGED <<epicsResp, w2, errs2, calls2, log2, stage3Vars, sink, ssCalls>>

(***************************************************************************)
(* The tail of runParse: checkpoint save, gap validation, the sink.        *)
(* The validation answer is a text over three characters: the two braces   *)
(* and "k", which stands for the text of one well-formed JSON member.      *)
(* Such a text has no surrounding space, CLI wrapper or fence, so the      *)
(* first steps of ParseValidationResult leave it as it is.                 *)
(***************************************************************************)
Chars == {"{", "}", "k"}

Texts == SeqsUpTo(Chars, MaxTextLen)

\* strings.Index: the 0-based position of the first c in text, -1 without one
Index(text, c) ==
    IF \E i \in DOMAIN text : text[i] = c
    THEN (CHOOSE i \in DOMAIN text :
             text[i] = c /\ \A j \in 1..(i - 1) : text[j] # c) - 1
    ELSE -1

\* strings.LastIndex: the 0-based position of the last c in text, -1 without one
LastIndex(text, c) ==
    IF \E i \in DOMAIN text : text[i] = c
    THEN (CHOOSE i \in DOMAIN text :
             text[i] = c /\ \A j \in (i + 1)..Len(text) : text[j] # c) - 1
    ELSE -1

\* json.Unmarshal into a ValidationResult accepts an object: {} or {k}
ValidJSON(text) == text \in {<<"{", "}">>, <<"{", "k", "}">>}

\* ParseValidationResult: "ok" is a result, "error" an error return, "panic"
\* the runtime panic of the slice expression output[start : end+1], which Go
\* raises when start > end+1
ParseValidationResult(output) ==
    LET start == Index(output, "{")
        end == LastIndex(output, "}")
    IN  IF start = -1 \/ end = -1 THEN "error"
        ELSE IF start > end + 1 THEN "panic"
        ELSE IF ValidJSON(SubSeq(output, start + 1, end + 1)) THEN "ok"
        ELSE "error"

\* what the validation call can yield: no CLI, a failed call, or a text
ValidationAnswers == {<<"unavailable">>, <<"callerr">>} \cup {<<"text", t>> : t \in Texts}

\* runValidation
runValidation(answer) ==
    IF answer[1] # "text" THEN "error" ELSE ParseValidationResult(answer[2])

\* what the validation pass can come to: "off" without --validate
ValidationOutcomes(f) ==
    IF f.validate THEN {runValidation(answer) : answer \in ValidationAnswers} ELSE {"off"}

\* what the os.WriteFile of --save-json can come to: "off" without the flag
SaveOutcomes(f) == IF f.saveJSON THEN {"saved", "failed"} ELSE {"off"}

\* runParse between generation and the sink: the checkpoint save of
\* --save-json, whose failure is returned, and the gap validation of
\* --validate, whose error is printed as a warning.  Neither writes
\* parseResponse.
AfterGenerate ==
    /\ pc = "generated"
    /\ \E save \in SaveOutcomes(flags), r \in ValidationOutcomes(flags) :
          IF save = "failed"
          THEN /\ pc' = "failed"
               /\ UNCHANGED <<gap, checkpoint>>
          ELSE /\ checkpoint' = IF save = "saved" THEN out.tree ELSE checkpoint
               /\ gap' = IF r = "error" THEN "warning" ELSE r
               /\ pc' = IF r = "panic" THEN "crashed" ELSE "create"
    /\ UNCHANGED <<scenario, offPipeline, log1, ctx, lateCalls, created>>
    /\ UNCHANGED <<epicsResp, stage2Vars, stage3Vars, out, sink, ssCalls>>

\* the temp ids of the items of a tree
ItemIds(tree) ==
    UNION {{tree.Epics[i].TempID}
           \cup UNION {{tree.Epics[i].Tasks[j].TempID}
                       \cup {tree.Epics[i].Tasks[j].Subtasks[x].TempID :
                                x \in DOMAIN tree.Epics[i].Tasks[j].Subtasks} :
                          j \in DOMAIN tree.Epics[i].Tasks} :
             i \in DOMAIN tree.Epics}

\* the items bd may refuse in one run: none, any single one, or every epic
FailureChoices(tree) ==
    {{}} \cup {{id} : id \in ItemIds(tree)}
         \cup {{tree.Epics[i].TempID : i \in DOMAIN tree.Epics}}

\* BeadsAdapter.CreateItems, phases 1 to 3, when bd refuses the items in
\* refused: result.Failed gets the refused epics, the refused tasks of created
\* epics and the refused subtasks of created tasks; the items below a refused
\* item are skipped
FailedItems(tree, refused) ==
    LET E == tree.Epics
        failedEpics == {E[i].TempID : i \in {i \in DOMAIN E : E[i].TempID \in refused}}
        createdEpics == {i \in DOMAIN E : E[i].TempID \notin refused}
        failedTasks ==
            UNION {{E[i].Tasks[j].TempID :
                       j \in {j \in DOMAIN E[i].Tasks : E[i].Tasks[j].TempID \in refused}} :
                     i \in createdEpics}
        failedSubtasks ==
            UNION {UNION {{E[i].Tasks[j].Subtasks[x].TempID :
                              x \in {x \in DOMAIN E[i].Tasks[j].Subtasks :
                                        E[i].Tasks[j].Subtasks[x].TempID \in refused}} :
                            j \in {j \in DOMAIN E[i].Tasks :
                                      E[i].Tasks[j].TempID \notin refused}} :
                     i \in createdEpics}
    IN  failedEpics \cup failedTasks \cup failedSubtasks

\* what the adapter's CreateItems returns
CreateResult(failed, err) == [Failed |-> failed, err |-> err]

\* runParse: wrappedOutput.CreateItems(parseResponse), the checkpoint written
\* when it returns an error, and the summary.  The beads adapter records a
\* refused item in result.Failed and returns a nil error; the json adapter
\* returns an error when its file cannot be written.  The result of the
\* os.WriteFile of the checkpoint is not looked at.
CreateItems ==
    /\ pc = "create"
    /\ sink' = out.tree
    /\ IF flags.output = "beads"
       THEN \E refused \in FailureChoices(out.tree) :
               /\ created' = CreateResult(FailedItems(out.tree, refused), NoErr)
               /\ pc' = "done"
               /\ UNCHANGED checkpoint
       ELSE \E writeFails \in BOOLEAN, written \in BOOLEAN :
               IF writeFails
               THEN /\ created' = CreateResult({}, Wrap("creating items failed", <<>>,
                                                        GenError(5, <<>>)))
                    /\ checkpoint' = IF written THEN out.tree ELSE checkpoint
                    /\ pc' = "failed"
               ELSE /\ created' = CreateResult({}, NoErr)
                    /\ pc' = "done"
                    /\ UNCHANGED checkpoint
    /\ UNCHANGED <<scenario, offPipeline, log1, ctx, lateCalls, gap>>
    /\ UNCHANGED <<epicsResp, stage2Vars, stage3Vars, out, ssCalls>>

Next ==
    \/ LoadCheckpoint
    \/ StartMultiStage
    \/ StartSingleShot
    \/ SingleShotAttempt
    \/ Stage1
    \/ \E idx \in DOMAIN w2 : Acquire2(idx)
    \/ \E idx \in DOMAIN w2 : Return2(idx)
    \/ Join2
    \/ \E idx \in DOMAIN w3 : Acquire3(idx)
    \/ \E idx \in DOMAIN w3 : Return3(idx)
    \/ Join3
    \/ AfterGenerate
    \/ CreateItems

Spec == Init /\ [][Next]_vars

(***************************************************************************)
(* runParse under every combination of --validate, --save-json and         *)
(* --output, with the tree coming from the single-shot adapter.            *)
(***************************************************************************)
AllFlags == [validate : BOOLEAN, saveJSON : BOOLEAN, output : {"beads", "json"}]

InitFlags ==
    /\ gen = "cli" /\ tasksPer = 1 /\ subsPer = 1
    /\ pc = "start"
    /\ epicsResp = Nil
    /\ w2 = <<>> /\ epics = <<>> /\ errs2 = <<>> /\ calls2 = <<>>
    /\ taskRefs = <<>> /\ w3 = <<>> /\ calls3 = <<>>
    /\ results3 = <<>> /\ errs3 = <<>>
    /\ out = NoResult
    /\ sink = Nil
    /\ ssCalls = 0
    /\ log2 = {} /\ log3 = {}
    /\ rpc = "off"
    /\ orig = Nil /\ reviewed = Nil /\ merged = Nil /\ review = Nil
    /\ RunAtRest
    /\ flags \in AllFlags
    /\ StrategyOff
    /\ ValidateOff
    /\ ExtractOff
    /\ InteractiveOff

NextFlags ==
    \/ StartSingleShot
    \/ SingleShotAttempt
    \/ AfterGenerate
    \/ CreateItems

SpecFlags == InitFlags /\ [][NextFlags]_vars

(***************************************************************************)
(* The multi-stage parser under a caller that may cancel the context it    *)
(* passed to Parse while stage 2 or stage 3 has workers that are not done. *)
(***************************************************************************)
\* runParse builds the parser around llm.NewMultiStageGenerator; the sizes of
\* the answers play no part in cancellation, so every answer carries one item
InitCancel == Init /\ gen = "cli" /\ tasksPer = 1 /\ subsPer = 1

\* the caller cancels; pending tells whether a worker has yet to issue its call
Cancel ==
    /\ ~ctx.cancelled
    /\ \/ pc = "stage2" /\ ~WaitDone(w2)
          /\ ctx' = [cancelled |-> TRUE, stage |-> pc,
                     pending |-> \E i \in DOMAIN w2 : w2[i] = "wait"]
       \/ pc = "stage3" /\ ~WaitDone(w3)
          /\ ctx' = [cancelled |-> TRUE, stage |-> pc,
                     pending |-> \E i \in DOMAIN w3 : w3[i] = "wait"]
    /\ UNCHANGED <<scenario, offPipeline, log1, lateCalls, tailVars>>
    /\ UNCHANGED <<pc, epicsResp, stage2Vars, stage3Vars, out, sink, ssCalls>>

NextCancel ==
    \/ Cancel
    \/ StartMultiStage
    \/ Stage1
    \/ \E idx \in DOMAIN w2 : Acquire2(idx)
    \/ \E idx \in DOMAIN w2 : Return2(idx)
    \/ Join2
    \/ \E idx \in DOMAIN w3 : Acquire3(idx)
    \/ \E idx \in DOMAIN w3 : Return3(idx)
    \/ Join3

SpecCancel == InitCancel /\ [][NextCancel]_vars

(***************************************************************************)
(* The fan-outs under fair scheduling.  A goroutine blocked on the         *)
(* semaphore send proceeds once the channel has room, a capability call    *)
(* that was issued returns, and Parse's goroutine proceeds once wg.Wait()  *)
(* can return.  Nothing is assumed of what the calls return.               *)
(***************************************************************************)
NextFanOut ==
    \/ StartMultiStage
    \/ Stage1
    \/ \E idx \in DOMAIN w2 : Acquire2(idx)
    \/ \E idx \in DOMAIN w2 : Return2(idx)
    \/ Join2
    \/ \E idx \in DOMAIN w3 : Acquire3(idx)
    \/ \E idx \in DOMAIN w3 : Return3(idx)
    \/ Join3

\* the number of workers is what matters here: the stub's answers give the
\* fan-outs without workers and the widest stage 3, the MultiStageGenerator
\* adds the retry loop of GenerateSubtasks
InitFair ==
    /\ InitRun
    /\ subsPer = 1
    /\ \/ gen = "stub" /\ tasksPer \in {1, MaxTasksPer}
       \/ gen = "cli" /\ tasksPer = 1

FairWorkers ==
    /\ WF_vars(\E idx \in DOMAIN w2 : Acquire2(idx))
    /\ WF_vars(\E idx \in DOMAIN w2 : Return2(idx))
    /\ WF_vars(Join2)
    /\ WF_vars(\E idx \in DOMAIN w3 : Acquire3(idx))
    /\ WF_vars(\E idx \in DOMAIN w3 : Return3(idx))
    /\ WF_vars(Join3)

SpecFair == InitFair /\ [][NextFanOut]_vars /\ FairWorkers

(***************************************************************************)
(* Structural reviewer: ReviewAndFix and mergeReviewedStructure (the       *)
(* overlay variant).  A reviewer answer is a skeleton: epics and tasks     *)
(* with ids, titles and dependency edges, without the leaf content.        *)
(***************************************************************************)
\* an original tree: n epics of k tasks each, every task with one subtask
OrigTree(n, k) ==
    LET eps == [i \in 1..n |->
                  Epic(<<i>>, "E",
                       [j \in 1..k |-> Task(<<i, j>>, "T", <<Subtask(<<i, j, 1>>)>>, <<>>)],
                       <<>>)]
    IN  ParseResponse(ProjectContext("P"), eps,
                      ResponseMetadata(n, CountTasks(eps), CountSubtasks(eps)))

OrigTrees == {OrigTree(n, k) : n \in 1..MaxOrigEpics, k \in 1..MaxOrigTasks}

\* an epic or task as the reviewer's JSON carries it: no description,
\* criteria or testing data
RevTask(id, title, subtasks, deps) ==
    [TempID |-> id, Title |-> title, Description |-> <<>>,
     Testing |-> <<>>, Subtasks |-> subtasks, DependsOn |-> deps]

RevEpic(id, title, tasks, deps) ==
    [TempID |-> id, Title |-> title, Description |-> <<>>,
     AcceptanceCriteria |-> <<>>, Tasks |-> tasks, DependsOn |-> deps]

RawReviewResponse(notes, project, eps) ==
    [ReviewNotes |-> notes, Project |-> project, Epics |-> eps]

\* how a skeleton treats titles and dependency edges
RevVariants == {"asOrig", "deps", "retitled", "untitled"}

RevTitle(variant, title) ==
    CASE variant = "retitled" -> "R"
      [] variant = "untitled" -> ""
      [] OTHER -> title

RevDeps(variant, dep) == IF variant = "deps" THEN <<dep>> ELSE <<>>

\* what a skeleton lists as the tasks of an epic
TaskOptions == {"none", "same", "tail", "plusNew", "plusNewSub", "other"}

\* the id of an epic the original does not have
NewEpicId == <<9>>

EpicIds(tree) == {tree.Epics[i].TempID : i \in DOMAIN tree.Epics}

\* the original's epic with this id (ids of an original tree are unique)
EpicWithId(tree, id) ==
    tree.Epics[CHOOSE i \in DOMAIN tree.Epics : tree.Epics[i].TempID = id]

\* the skeleton's view of a task list: ids, titles, dependency edges
Projection(tasks, variant) ==
    [j \in DOMAIN tasks |->
        RevTask(tasks[j].TempID, RevTitle(variant, tasks[j].Title), <<>>,
                RevDeps(variant, <<1, 1>>))]

SkeletonTasks(tree, id, opt, variant) ==
    LET own == IF id \in EpicIds(tree) THEN EpicWithId(tree, id).Tasks ELSE <<>>
        others == EpicIds(tree) \ {id}
        newTask(subs) == RevTask(id \o <<9>>, RevTitle(variant, "N"), subs,
                                 RevDeps(variant, <<1, 1>>))
    IN  CASE opt = "none" -> <<>>
          [] opt = "same" -> Projection(own, variant)
          [] opt = "tail" -> IF Len(own) = 0 THEN <<>> ELSE Projection(Tail(own), variant)
          [] opt = "plusNew" -> Projection(own, variant) \o <<newTask(<<>>)>>
          [] opt = "plusNewSub" ->
                Projection(own, variant) \o <<newTask(<<Subtask(id \o <<9, 1>>)>>)>>
          [] opt = "other" ->
                IF others = {} THEN <<>>
                ELSE Projection(EpicWithId(tree, CHOOSE o \in others : TRUE).Tasks, variant)

SkeletonEpic(tree, id, opt, variant) ==
    RevEpic(id,
            RevTitle(variant, IF id \in EpicIds(tree) THEN EpicWithId(tree, id).Title ELSE "N"),
            SkeletonTasks(tree, id, opt, variant),
            RevDeps(variant, <<1>>))

\* the project of a reviewer answer: the skeleton the reviewer is shown has
\* the product name and the tech stack only, so the pitch comes back empty
RevProject(name, stack) ==
    [ProductName |-> name, ElevatorPitch |-> "", TechStack |-> stack]

\* review_notes and the reviewer's project
NotesAndProject ==
    {<<"No changes needed", RevProject("", <<>>)>>,
     <<"", RevProject("", <<"rust">>)>>,
     <<"fixed", RevProject("P2", <<"rust">>)>>}

\* the reviewer answers that parse: up to MaxRevEpics epics with distinct ids,
\* each an original epic or a new one
Skeletons(tree) ==
    LET ids == EpicIds(tree) \cup {NewEpicId}
        shapes == UNION {[1..m -> ids \X TaskOptions] : m \in 0..MaxRevEpics}
        distinct == {sh \in shapes :
                        \A a \in DOMAIN sh, b \in DOMAIN sh : a # b => sh[a][1] # sh[b][1]}
    IN  {RawReviewResponse(np[1], np[2],
                           [i \in DOMAIN sh |-> SkeletonEpic(tree, sh[i][1], sh[i][2], variant)]) :
            np \in NotesAndProject, sh \in distinct, variant \in RevVariants}

\* originalEpicsByID / originalTasksByID: a later entry overwrites an earlier one
LastWithId(items, id) ==
    LET hits == {i \in DOMAIN items : items[i].TempID = id}
    IN  items[CHOOSE i \in hits : \A k \in hits : i >= k]

RECURSIVE AllTasks(_, _)
AllTasks(eps, n) == IF n = 0 THEN <<>> ELSE AllTasks(eps, n - 1) \o eps[n].Tasks

HasId(items, id) == \E i \in DOMAIN items : items[i].TempID = id

\* the reviewed task taken as it is, the original's content discarded
MergeTaskSubstitute(original, reviewedTask) == reviewedTask

\* one reviewed task: the original task with the reviewed dependency edges and
\* non-empty title, or the reviewed task itself when its id is new
MergeTask(original, reviewedTask) ==
    LET tasks == AllTasks(original.Epics, Len(original.Epics))
    IN  IF HasId(tasks, reviewedTask.TempID)
        THEN LET origTask == LastWithId(tasks, reviewedTask.TempID)
             IN  [origTask EXCEPT !.DependsOn = reviewedTask.DependsOn,
                                  !.Title = IF reviewedTask.Title # ""
                                            THEN reviewedTask.Title ELSE @]
        ELSE reviewedTask

\* a merge of one epic that never touches the task list of its base
MergeEpicKeepTasks(original, reviewedEpic) ==
    IF HasId(original.Epics, reviewedEpic.TempID)
    THEN LET origEpic == LastWithId(original.Epics, reviewedEpic.TempID)
         IN  [origEpic EXCEPT !.DependsOn = reviewedEpic.DependsOn,
                              !.Title = IF reviewedEpic.Title # ""
                                        THEN reviewedEpic.Title ELSE @]
    ELSE reviewedEpic

\* one reviewed epic
MergeEpic(original, reviewedEpic) ==
    LET base == IF HasId(original.Epics, reviewedEpic.TempID)
                THEN LET origEpic == LastWithId(original.Epics, reviewedEpic.TempID)
                     IN  [origEpic EXCEPT !.DependsOn = reviewedEpic.DependsOn,
                                          !.Title = IF reviewedEpic.Title # ""
                                                    THEN reviewedEpic.Title ELSE @]
                ELSE reviewedEpic
    IN  IF Len(reviewedEpic.Tasks) > 0
        THEN [base EXCEPT !.Tasks = [j \in DOMAIN reviewedEpic.Tasks |->
                                        MergeTask(original, reviewedEpic.Tasks[j])]]
        ELSE base

\* a merge that takes the reviewer's product name and keeps the other fields
MergeProjectNameOnly(original, rev) ==
    IF rev.Project.ProductName # ""
    THEN [original.Project EXCEPT !.ProductName = rev.Project.ProductName]
    ELSE original.Project

\* merged.Project: the original's, or the reviewer's when it has a product name
MergeProject(original, rev) ==
    IF rev.Project.ProductName # "" THEN rev.Project ELSE original.Project

mergeReviewedStructure(original, rev) ==
    LET mergedEpics == [i \in DOMAIN rev.Epics |-> MergeEpic(original, rev.Epics[i])]
    IN  ParseResponse(
            MergeProject(original, rev),
            mergedEpics,
            [original.Metadata EXCEPT !.TotalEpics = Len(mergedEpics),
                                      !.TotalTasks = CountTasks(mergedEpics),
                                      !.TotalSubtasks = CountSubtasks(mergedEpics)])

ReviewResult(response, wasModified, notes) ==
    [Response |-> response, WasModified |-> wasModified, ReviewNotes |-> notes]

\* the merged tree returned whether or not it validates
ResultWithoutFallback(response, mergedResponse, notes) ==
    ReviewResult(mergedResponse, notes # "No changes needed" /\ notes # "", notes)

\* ReviewAndFix after the merge: validate, fall back to the original
ResultAfterMerge(response, mergedResponse, notes) ==
    IF Validate(mergedResponse) # NoErr
    THEN ReviewResult(response, FALSE, "Review merge failed validation")
    ELSE ReviewResult(mergedResponse, notes # "No changes needed" /\ notes # "", notes)

pipelineVars ==
    <<gen, tasksPer, subsPer, pc, epicsResp, w2, epics, errs2, calls2, taskRefs,
      w3, calls3, results3, errs3, out, sink, ssCalls, log2, log3, runVars, flags>>

InitReview ==
    /\ gen = "cli" /\ tasksPer = 1 /\ subsPer = 1
    /\ pc = "review"
    /\ epicsResp = Nil
    /\ w2 = <<>> /\ epics = <<>> /\ errs2 = <<>> /\ calls2 = <<>>
    /\ taskRefs = <<>> /\ w3 = <<>> /\ calls3 = <<>>
    /\ results3 = <<>> /\ errs3 = <<>>
    /\ out = NoResult
    /\ sink = Nil
    /\ ssCalls = 0
    /\ log2 = {} /\ log3 = {}
    /\ rpc = "idle"
    /\ orig \in OrigTrees
    /\ reviewed = Nil /\ merged = Nil /\ review = Nil
    /\ RunStart
    /\ StrategyOff
    /\ ValidateOff
    /\ ExtractOff
    /\ InteractiveOff

\* ReviewAndFix: the reviewer call fails or its answer does not parse
ReviewFails ==
    /\ rpc = "idle"
    /\ \E outcome \in {"callerr", "unparsable"} :
          review' = [result |-> Nil, err |-> Wrap(outcome, <<>>, GenError(4, <<>>))]
    /\ rpc' = "returned"
    /\ UNCHANGED <<pipelineVars, strategyVars, validateVars, extractVars, interactiveVars, orig, reviewed, merged>>

\* ReviewAndFix: the answer parses, is merged onto the original and validated
ReviewMerges ==
    /\ rpc = "idle"
    /\ \E rev \in Skeletons(orig) :
          LET m == mergeReviewedStructure(orig, rev)
          IN  /\ reviewed' = rev
              /\ merged' = m
              /\ review' = [result |-> ResultAfterMerge(orig, m, rev.ReviewNotes),
                            err |-> NoErr]
    /\ rpc' = "returned"
    /\ UNCHANGED <<pipelineVars, strategyVars, validateVars, extractVars, interactiveVars, orig>>

NextReview == ReviewFails \/ ReviewMerges

SpecReview == InitReview /\ [][NextReview]_vars

(***************************************************************************)
(* mergeReviewedStructure on its own: an original tree and a parsed        *)
(* reviewer answer go in, the merged tree comes out.                       *)
(***************************************************************************)
Merge ==
    /\ rpc = "idle"
    /\ \E rev \in Skeletons(orig) :
          /\ reviewed' = rev
          /\ merged' = mergeReviewedStructure(orig, rev)
    /\ rpc' = "merged"
    /\ UNCHANGED <<pipelineVars, strategyVars, validateVars, extractVars, interactiveVars, orig, review>>

NextMerge == Merge

SpecMerge == InitReview /\ [][NextMerge]_vars

(***************************************************************************)
(* The two producers of trees side by side: a call of MultiStageParser's   *)
(* Parse whose full answers carry the largest lists, or a call of          *)
(* ReviewAndFix on a tree.                                                 *)
(***************************************************************************)
InitParseOrReview ==
    \/ InitRun /\ tasksPer = MaxTasksPer /\ subsPer = MaxCountedSubs
    \/ InitReview

NextParseOrReview ==
    \/ StartMultiStage
    \/ Stage1
    \/ \E idx \in DOMAIN w2 : Acquire2(idx)
    \/ \E idx \in DOMAIN w2 : Return2(idx)
    \/ Join2
    \/ \E idx \in DOMAIN w3 : Acquire3(idx)
    \/ \E idx \in DOMAIN w3 : Return3(idx)
    \/ Join3
    \/ ReviewFails
    \/ ReviewMerges

SpecParseOrReview == InitParseOrReview /\ [][NextParseOrReview]_vars

(***************************************************************************)
(* ParseResponse.Validate on its own, over every tree json.Unmarshal can   *)
(* produce within the bounds: names, titles and child lists present or     *)
(* empty in every combination.                                             *)
(***************************************************************************)
ValTasks == {Task(<<1, 1>>, title, subs, <<>>) : title \in {"", "T"}, subs \in RawSubtaskSeqs}

ValEpics ==
    {Epic(<<1>>, title, tasks, <<>>) : title \in {"", "E"}, tasks \in SeqsUpTo(ValTasks, MaxValTasks)}

ValTrees ==
    {ParseResponse(ProjectContext(name), eps, ResponseMetadata(0, 0, 0)) :
        name \in {"", "P"}, eps \in SeqsUpTo(ValEpics, MaxValEpics)}

\* every pipeline and reviewer variable at rest, with runParse at position at
PipelineIdle(at) ==
    /\ gen = "cli" /\ tasksPer = 1 /\ subsPer = 1
    /\ pc = at
    /\ epicsResp = Nil
    /\ w2 = <<>> /\ epics = <<>> /\ errs2 = <<>> /\ calls2 = <<>>
    /\ taskRefs = <<>> /\ w3 = <<>> /\ calls3 = <<>>
    /\ results3 = <<>> /\ errs3 = <<>>
    /\ out = NoResult
    /\ sink = Nil
    /\ ssCalls = 0
    /\ log2 = {} /\ log3 = {}
    /\ RunStart

ReviewOff ==
    /\ rpc = "off"
    /\ orig = Nil /\ reviewed = Nil /\ merged = Nil /\ review = Nil

InitValidate ==
    /\ PipelineIdle("validate")
    /\ ReviewOff
    /\ StrategyOff
    /\ ExtractOff
    /\ InteractiveOff
    /\ vtree \in ValTrees
    /\ verr = Nil

\* r.Validate() is called on the tree
CallValidate ==
    /\ vtree # Nil /\ verr = Nil
    /\ verr' = Validate(vtree)
    /\ UNCHANGED <<pipelineVars, reviewVars, strategyVars, extractVars, interactiveVars, vtree>>

NextValidate == CallValidate

SpecValidate == InitValidate /\ [][NextValidate]_vars

(***************************************************************************)
(* runParse's choice between single-shot and multi-stage generation.  The  *)
(* PRD is a text over an ordinary character "x" and the newline "\n".      *)
(***************************************************************************)
PrdTexts == SeqsUpTo({"x", "\n"}, MaxPrdLen)

StrategyInputs ==
    [multiStage : BOOLEAN, singleShot : BOOLEAN,
     smartParseLines : 0..MaxThreshold, prdContent : PrdTexts]

\* len(strings.Split(text, "\n")): one piece more than there are newlines
SplitCount(text) == Cardinality({i \in DOMAIN text : text[i] = "\n"}) + 1

\* the strategy runParse settles on
UseMultiStage(c) ==
    LET lineCount == SplitCount(c.prdContent)
    IN  IF ~c.multiStage /\ ~c.singleShot /\ c.smartParseLines > 0
        THEN lineCount > c.smartParseLines
        ELSE IF c.singleShot THEN FALSE
        ELSE c.multiStage

InitStrategy ==
    /\ PipelineIdle("start")
    /\ ReviewOff
    /\ ValidateOff
    /\ ExtractOff
    /\ InteractiveOff
    /\ cfg \in StrategyInputs
    /\ strategy = "none"

\* runParse from reading the PRD to the start of the chosen generation path
ChooseStrategy ==
    /\ pc = "start" /\ cfg # Nil /\ strategy = "none"
    /\ IF UseMultiStage(cfg)
       THEN /\ strategy' = "multi-stage"
            /\ pc' = "stage1"
            /\ UNCHANGED ssCalls
       ELSE /\ strategy' = "single-shot"
            /\ pc' = "single"
            /\ ssCalls' = 1
    /\ UNCHANGED <<scenario, reviewVars, validateVars, extractVars, interactiveVars, runVars, cfg>>
    /\ UNCHANGED <<epicsResp, stage2Vars, stage3Vars, out, sink>>

NextStrategy == ChooseStrategy

SpecStrategy == InitStrategy /\ [][NextStrategy]_vars

(***************************************************************************)
(* JSON extraction: extractJSON of the multi-stage generator, followed by  *)
(* the json.Unmarshal of its callers, and the same steps inside            *)
(* parseJSONResponse of the single-shot adapter.  A capability output is   *)
(* a text over the two braces, "k" (the text of one JSON member), the      *)
(* space and "F" (a markdown fence), either bare or inside the CLI's       *)
(* envelope {"type":..,"is_error":..,"result":..}.                         *)
(***************************************************************************)
RawChars == {"{", "}", "k", " ", "F"}

RawTexts == SeqsUpTo(RawChars, MaxRawLen)

RawOutputs == [envelope : {"none", "result", "error"}, text : RawTexts]

RECURSIVE TrimLeft(_)
TrimLeft(text) ==
    IF text # <<>> /\ Head(text) = " " THEN TrimLeft(Tail(text)) ELSE text

RECURSIVE TrimRight(_)
TrimRight(text) ==
    IF text # <<>> /\ text[Len(text)] = " "
    THEN TrimRight(SubSeq(text, 1, Len(text) - 1))
    ELSE text

\* strings.TrimSpace
TrimSpace(text) == TrimRight(TrimLeft(text))

\* the fence removal: a leading fence is cut off, then everything from the
\* last fence on, and the rest is trimmed
StripFences(text) ==
    IF text # <<>> /\ Head(text) = "F"
    THEN LET rest == Tail(text)
             idx == LastIndex(rest, "F")
         IN  TrimSpace(IF idx # -1 THEN SubSeq(rest, 1, idx) ELSE rest)
    ELSE text

\* the text in which the span is looked for: the envelope's result, or the
\* output itself, trimmed and without its fences
Unwrapped(output) == StripFences(TrimSpace(output.text))

\* the span of the text between 0-based start and end, "" when there is none
JSONSpan(text) ==
    LET start == Index(text, "{")
        end == LastIndex(text, "}")
    IN  IF start = -1 \/ end = -1 \/ end < start
        THEN <<>>
        ELSE SubSeq(text, start + 1, end + 1)

\* extractJSON: "" for an envelope with is_error and for a text without a span
extractJSON(output) ==
    IF output.envelope = "error" THEN <<>> ELSE JSONSpan(Unwrapped(output))

\* a decoder that takes every span for an object
UnmarshalsAnything(span) == TRUE

\* json.Unmarshal accepts an object: {} or {k}, with spaces between the tokens
Unmarshals(span) ==
    SelectSeq(span, LAMBDA c : c # " ") \in {<<"{", "}">>, <<"{", "k", "}">>}

\* GenerateEpics, GenerateTasks and GenerateSubtasks after the call: the span,
\* then the decoding
ExtractAndUnmarshal(output) ==
    LET jsonStr == extractJSON(output)
    IN  IF jsonStr = <<>> THEN "no valid JSON"
        ELSE IF ~Unmarshals(jsonStr) THEN "JSON parse error"
        ELSE "ok"

\* parseJSONResponse up to the Unmarshal
parseJSONSpan(output) ==
    IF output.envelope = "none" /\ Len(output.text) = 0 THEN "empty response"
    ELSE IF output.envelope = "error" THEN "CLI returned error"
    ELSE LET jsonStr == JSONSpan(Unwrapped(output))
         IN  IF jsonStr = <<>> THEN "no valid JSON"
             ELSE IF ~Unmarshals(jsonStr) THEN "JSON syntax error"
             ELSE "ok"

InitExtract ==
    /\ PipelineIdle("extract")
    /\ ReviewOff
    /\ StrategyOff
    /\ ValidateOff
    /\ InteractiveOff
    /\ raw \in RawOutputs
    /\ extracted = Nil

\* a capability output goes through both routines
Extract ==
    /\ raw # Nil /\ extracted = Nil
    /\ extracted' = [span |-> extractJSON(raw),
                     stage |-> ExtractAndUnmarshal(raw),
                     single |-> parseJSONSpan(raw)]
    /\ UNCHANGED <<pipelineVars, reviewVars, strategyVars, validateVars, interactiveVars, raw>>

NextExtract == Extract

SpecExtract == InitExtract /\ [][NextExtract]_vars

(***************************************************************************)
(* BeadsAdapter.CreateItems in full: the four phases over a tree whose     *)
(* temp ids need not be distinct (neither json.Unmarshal nor Validate      *)
(* looks at them), with bd refusing any of the creations and any of the    *)
(* dependency links.  An item is named by its position in the tree.        *)
(***************************************************************************)
MaxSinkEpics == 2
MaxSinkTasks == 1
MaxSinkSubs == 1

\* a subtask with the field phase 4 reads
SinkSubtask(id, deps) == [TempID |-> id, Title |-> "S", DependsOn |-> deps]

\* the depends_on lists of the trees: empty, or the first epic's temp id
SinkDeps == {<<>>, << <<1>> >>}

SinkSubtaskSeqs(i, j) ==
    {[x \in 1..m |-> SinkSubtask(<<i, j, x>>, d)] : m \in 0..MaxSinkSubs, d \in SinkDeps}

\* the tasks of epic i: a task carries its own temp id or that of the first
\* task of the first epic
SinkTaskSeqs(i) ==
    UNION {{[j \in 1..m |-> Task(IF dup THEN <<1, j>> ELSE <<i, j>>, "T", subs, d)] :
              dup \in BOOLEAN, subs \in SinkSubtaskSeqs(i, 1), d \in SinkDeps} :
           m \in 0..MaxSinkTasks}

\* epic i carries its own temp id or that of the first epic
SinkEpics(i) ==
    {Epic(id, "E", tasks, d) : id \in {<<1>>, <<i>>}, tasks \in SinkTaskSeqs(i), d \in SinkDeps}

\* the trees of max epics at most
SinkTrees(max) ==
    UNION {{ParseResponse(ProjectContext("P"), eps, ResponseMetadata(0, 0, 0)) :
              eps \in {e \in [1..n -> UNION {SinkEpics(i) : i \in 1..n}] :
                          \A i \in 1..n : e[i] \in SinkEpics(i)}} :
           n \in 1..max}

\* the id bd gives to the item it creates for the item at pos
ExternalID(pos) == <<"bd", pos>>

WorkItem(type, tempID, parentTempID) ==
    [Type |-> type, TempID |-> tempID, ParentTempID |-> parentTempID]

CreatedItem(externalID, tempID, type, parentExternalID) ==
    [ExternalID |-> externalID, TempID |-> tempID, Type |-> type,
     ParentExternalID |-> parentExternalID]

Dependency(from, to) == [From |-> from, To |-> to, Type |-> "depends_on"]

\* tempToExternal[k] = v
MapPut(map, k, v) == [x \in DOMAIN map \cup {k} |-> IF x = k THEN v ELSE map[x]]

\* the positions of the items of a tree
ItemPositions(tree) ==
    LET E == tree.Epics
    IN  UNION {{<<i>>}
               \cup UNION {{<<i, j>>}
                           \cup {<<i, j, x>> : x \in DOMAIN E[i].Tasks[j].Subtasks} :
                              j \in DOMAIN E[i].Tasks} :
                 i \in DOMAIN E}

\* result and tempToExternal as CreateItems sets them up
NewResult ==
    [tempToExternal |-> <<>>,
     Created |-> <<>>, Failed |-> <<>>, Dependencies |-> <<>>,
     Stats |-> [Epics |-> 0, Tasks |-> 0, Subtasks |-> 0, Dependencies |-> 0]]

\* result.Stats.Epics++, Tasks++ or Subtasks++
CountCreated(stats, type) ==
    IF type = "epic" THEN [stats EXCEPT !.Epics = @ + 1]
    ELSE IF type = "task" THEN [stats EXCEPT !.Tasks = @ + 1]
    ELSE [stats EXCEPT !.Subtasks = @ + 1]

\* one creation loop over the first n of items, the children of the item at
\* position prefix: a refused creation is appended to Failed, any other to
\* Created and entered in tempToExternal under the item's temp id
RECURSIVE CreateLoop(_, _, _, _, _, _, _, _)
CreateLoop(items, prefix, type, parentTempID, parentID, refused, st, n) ==
    IF n = 0 THEN st
    ELSE LET prev == CreateLoop(items, prefix, type, parentTempID, parentID, refused, st, n - 1)
             item == items[n]
             pos == Append(prefix, n)
         IN  IF pos \in refused
             THEN [prev EXCEPT !.Failed =
                      Append(@, [Item |-> WorkItem(type, item.TempID, parentTempID),
                                 Error |-> "bd create failed"])]
             ELSE [prev EXCEPT
                      !.Created = Append(@, CreatedItem(ExternalID(pos), item.TempID,
                                                        type, parentID)),
                      !.tempToExternal = MapPut(@, item.TempID, ExternalID(pos)),
                      !.Stats = CountCreated(@, type)]

\* phase 2 over the first n epics: the tasks of an epic whose temp id has an
\* entry in tempToExternal
RECURSIVE CreateTasks(_, _, _, _)
CreateTasks(E, refused, st, n) ==
    IF n = 0 THEN st
    ELSE LET prev == CreateTasks(E, refused, st, n - 1)
             epic == E[n]
         IN  IF epic.TempID \notin DOMAIN prev.tempToExternal THEN prev
             ELSE CreateLoop(epic.Tasks, <<n>>, "task", epic.TempID,
                             prev.tempToExternal[epic.TempID], refused, prev,
                             Len(epic.Tasks))

\* phase 3 over the first n tasks of epic i
RECURSIVE CreateSubtasksOf(_, _, _, _, _)
CreateSubtasksOf(tasks, i, refused, st, n) ==
    IF n = 0 THEN st
    ELSE LET prev == CreateSubtasksOf(tasks, i, refused, st, n - 1)
             task == tasks[n]
         IN  IF task.TempID \notin DOMAIN prev.tempToExternal THEN prev
             ELSE CreateLoop(task.Subtasks, <<i, n>>, "subtask", task.TempID,
                             prev.tempToExternal[task.TempID], refused, prev,
                             Len(task.Subtasks))

\* phase 3 over the first n epics
RECURSIVE CreateSubtasks(_, _, _, _)
CreateSubtasks(E, refused, st, n) ==
    IF n = 0 THEN st
    ELSE CreateSubtasksOf(E[n].Tasks, n, refused,
                          CreateSubtasks(E, refused, st, n - 1), Len(E[n].Tasks))

RECURSIVE Concat(_, _)
Concat(seqs, n) == IF n = 0 THEN <<>> ELSE Concat(seqs, n - 1) \o seqs[n]

\* the depends_on entries of one item, as phase 4 meets them
LinksOf(pos, item) ==
    [d \in DOMAIN item.DependsOn |->
        [pos |-> pos, d |-> d, from |-> item.TempID, to |-> item.DependsOn[d]]]

\* the order of phase 4: an epic's entries, then for each of its tasks the
\* task's entries followed by those of its subtasks
LinkRequests(tree) ==
    LET E == tree.Epics
        OfTask(i, j) ==
            LET S == E[i].Tasks[j].Subtasks
            IN  LinksOf(<<i, j>>, E[i].Tasks[j])
                \o Concat([x \in DOMAIN S |-> LinksOf(<<i, j, x>>, S[x])], Len(S))
        OfEpic(i) ==
            LinksOf(<<i>>, E[i])
            \o Concat([j \in DOMAIN E[i].Tasks |-> OfTask(i, j)], Len(E[i].Tasks))
    IN  Concat([i \in DOMAIN E |-> OfEpic(i)], Len(E))

LinkIds(tree) ==
    LET reqs == LinkRequests(tree)
    IN  {<<reqs[k].pos, reqs[k].d>> : k \in DOMAIN reqs}

\* phase 4 over the first n requests: a link is asked of bd when both temp
\* ids have an entry in tempToExternal, and recorded when bd accepts it
RECURSIVE AddDependencies(_, _, _, _)
AddDependencies(reqs, linkFails, st, n) ==
    IF n = 0 THEN st
    ELSE LET prev == AddDependencies(reqs, linkFails, st, n - 1)
             r == reqs[n]
             map == prev.tempToExternal
         IN  IF /\ r.to \in DOMAIN map
                /\ r.from \in DOMAIN map
                /\ <<r.pos, r.d>> \notin linkFails
             THEN [prev EXCEPT
                      !.Dependencies = Append(@, Dependency(map[r.from], map[r.to])),
                      !.Stats = [@ EXCEPT !.Dependencies = @ + 1]]
             ELSE prev

\* BeadsAdapter.CreateItems when bd refuses the creations at the positions
\* in refused and the links in linkFails
BeadsCreateItems(tree, refused, linkFails) ==
    LET E == tree.Epics
        p1 == CreateLoop(E, <<>>, "epic", "", "", refused, NewResult, Len(E))
        p2 == CreateTasks(E, refused, p1, Len(E))
        p3 == CreateSubtasks(E, refused, p2, Len(E))
        p4 == AddDependencies(LinkRequests(tree), linkFails, p3, Len(LinkRequests(tree)))
    IN  [Created |-> p4.Created, Failed |-> p4.Failed,
         Dependencies |-> p4.Dependencies, Stats |-> p4.Stats]

InitSink ==
    /\ gen = "cli" /\ tasksPer = 1 /\ subsPer = 1
    /\ pc = "create"
    /\ epicsResp = Nil
    /\ w2 = <<>> /\ epics = <<>> /\ errs2 = <<>> /\ calls2 = <<>>
    /\ taskRefs = <<>> /\ w3 = <<>> /\ calls3 = <<>>
    /\ results3 = <<>> /\ errs3 = <<>>
    /\ \E t \in SinkTrees(MaxSinkEpics) : out = [tree |-> t, err |-> NoErr]
    /\ sink = Nil
    /\ ssCalls = 0
    /\ log2 = {} /\ log3 = {}
    /\ RunStart
    /\ ReviewOff
    /\ StrategyOff
    /\ ValidateOff
    /\ ExtractOff
    /\ InteractiveOff

\* the adapter is handed the tree and returns its result, always with a nil error
CallBeadsAdapter ==
    /\ pc = "create"
    /\ sink' = out.tree
    /\ \E refused \in SUBSET ItemPositions(out.tree), linkFails \in SUBSET LinkIds(out.tree) :
          created' = [result |-> BeadsCreateItems(out.tree, refused, linkFails),
                      err |-> NoErr]
    /\ pc' = "done"
    /\ UNCHANGED <<scenario, offPipeline, log1, ctx, lateCalls, gap, checkpoint>>
    /\ UNCHANGED <<epicsResp, stage2Vars, stage3Vars, out, ssCalls>>

NextSink == CallBeadsAdapter

SpecSink == InitSink /\ [][NextSink]_vars

(***************************************************************************)
(* InteractiveParser: the review loop between stage 1 and stage 2.  Temp   *)
(* ids are the strings of the code.  The file the editor leaves behind is  *)
(* a sequence of lines; of a line the model keeps what parseEditedEpics    *)
(* takes from it: whether it is skipped, the "+" form, or the id part, the *)
(* title and the description around the first "." and the first "|".       *)
(***************************************************************************)
MaxGenEpics == 2
MaxEditLines == 2
MaxReviewEpics == 2

\* strconv.Itoa for the numbers the loop can reach
Itoa(n) == <<"1", "2", "3", "4", "5", "6", "7", "8", "9">>[n]

\* Epic{TempID, Title, Description, AcceptanceCriteria: {}, Tasks: {}, DependsOn}
NewEpic(id, title, desc, deps) ==
    [TempID |-> id, Title |-> title, Description |-> desc,
     AcceptanceCriteria |-> <<>>, Tasks |-> <<>>, DependsOn |-> deps]

\* the temp ids a Generator may put on its epics: nothing checks them
GenIds == {"1", "2"}

\* summariesToEpics of one epic summary of a GenerateEpics answer
GenEpic(id) ==
    [NewEpic(id, "E", "generated", <<>>) EXCEPT !.AcceptanceCriteria = <<"criteria", id>>]

GenEpicLists == UNION {[1..n -> {GenEpic(id) : id \in GenIds}] : n \in 0..MaxGenEpics}

\* an empty line, a comment or a line without "."
SkippedLine == [kind |-> "skip"]

\* "+ Title | Description"
PlusLine(title, desc) == [kind |-> "plus", title |-> title, desc |-> desc]

\* "NUMBER. TITLE | DESCRIPTION"
NumberedLine(idPart, title, desc) ==
    [kind |-> "numbered", idPart |-> idPart, title |-> title, desc |-> desc]

\* the lines formatEpicsForEdit writes below its comment header
formatEpicsForEdit(eps) ==
    [i \in DOMAIN eps |-> NumberedLine(eps[i].TempID, eps[i].Title, eps[i].Description)]

\* what the user may do to line k of the file
LineEdits(line) ==
    {SkippedLine,
     NumberedLine(line.idPart, "T", line.desc),
     NumberedLine(line.idPart, "T", "d"),
     NumberedLine(line.idPart, "", line.desc),
     NumberedLine("x", line.title, line.desc)}

\* the lines the user may add at the end of the file
AddedLines == {PlusLine("T", ""), PlusLine("", ""), NumberedLine("x", "T", "")}

\* the files the editor may leave: the file as written, emptied, with one
\* line changed, removed, repeated or moved one place up, or with one line
\* added, never longer than MaxEditLines lines
EditedFiles(eps) ==
    LET file == formatEpicsForEdit(eps)
        n == Len(file)
        changed == {[file EXCEPT ![k] = l] : k \in 1..n, l \in UNION {LineEdits(file[m]) : m \in 1..n}}
        removed == {SubSeq(file, 1, k - 1) \o SubSeq(file, k + 1, n) : k \in 1..n}
        repeated == {SubSeq(file, 1, k) \o SubSeq(file, k, n) : k \in 1..n}
        moved == {[file EXCEPT ![k - 1] = file[k], ![k] = file[k - 1]] : k \in 2..n}
        added == {Append(file, l) : l \in AddedLines}
    IN  {f \in {file, <<>>} \cup changed \cup removed \cup repeated \cup moved \cup added :
            Len(f) <= MaxEditLines}

\* originalMap[epic.TempID] = epic over the first n originals
RECURSIVE OriginalMap(_, _)
OriginalMap(originals, n) ==
    IF n = 0 THEN <<>>
    ELSE MapPut(OriginalMap(originals, n - 1), originals[n].TempID, originals[n])

\* the loop of parseEditedEpics over the first n lines
RECURSIVE ParseLines(_, _, _, _)
ParseLines(lines, originalMap, firstNewID, n) ==
    IF n = 0 THEN [result |-> <<>>, newID |-> firstNewID]
    ELSE LET prev == ParseLines(lines, originalMap, firstNewID, n - 1)
             line == lines[n]
         IN  IF line.kind = "skip" THEN prev
             ELSE IF line.kind = "plus"
             THEN IF line.title # ""
                  THEN [result |-> Append(prev.result,
                                          NewEpic(Itoa(prev.newID), line.title, line.desc, <<>>)),
                        newID |-> prev.newID + 1]
                  ELSE prev
             ELSE IF line.title = "" THEN prev
             ELSE IF line.idPart \in DOMAIN originalMap
             THEN LET orig0 == originalMap[line.idPart]
                      epic == [orig0 EXCEPT
                                  !.Title = line.title,
                                  !.Description = IF line.desc # "" THEN line.desc ELSE @]
                  IN  [prev EXCEPT !.result = Append(@, epic)]
             ELSE [prev EXCEPT !.result =
                      Append(@, NewEpic(line.idPart, line.title, line.desc, <<>>))]

\* an edit that leaves the ids as the lines gave them
KeepIDs(result) == result

\* result[i].TempID = strconv.Itoa(i + 1), i counted from 0
Renumber(result) == [i \in DOMAIN result |-> [result[i] EXCEPT !.TempID = Itoa(i)]]

parseEditedEpics(content, originals) ==
    Renumber(ParseLines(content, OriginalMap(originals, Len(originals)),
                        Len(originals) + 1, Len(content)).result)

Choice(key, outcome) == [key |-> key, outcome |-> outcome]

\* Parse after a stage 1 that succeeded: the loop is about to prompt
InitInteractive ==
    /\ PipelineIdle("interactive")
    /\ ReviewOff
    /\ StrategyOff
    /\ ValidateOff
    /\ ExtractOff
    /\ ipc = "review"
    /\ reviewEpics \in GenEpicLists
    /\ choice = Choice("none", "none")

interactiveRest == <<pipelineVars, reviewVars, strategyVars, validateVars, extractVars>>

\* promptChoice fails: interactiveEpicReview returns the error
PromptFails ==
    /\ ipc = "review"
    /\ ipc' = "failed"
    /\ choice' = Choice("none", "error")
    /\ UNCHANGED <<interactiveRest, reviewEpics>>

\* case "": the loop returns the epics and stage 2 starts
Continue ==
    /\ ipc = "review"
    /\ ipc' = "stage2"
    /\ choice' = Choice("", "continue")
    /\ UNCHANGED <<interactiveRest, reviewEpics>>

\* case "e": reviewEpicsInEditor fails, or the file is parsed; an empty
\* result keeps the list
Edit ==
    /\ ipc = "review"
    /\ \/ /\ choice' = Choice("e", "failed")
          /\ UNCHANGED reviewEpics
       \/ \E content \in EditedFiles(reviewEpics) :
             LET edited == parseEditedEpics(content, reviewEpics)
             IN  IF Len(edited) = 0
                 THEN /\ choice' = Choice("e", "empty")
                      /\ UNCHANGED reviewEpics
                 ELSE /\ choice' = Choice("e", "accepted")
                      /\ reviewEpics' = edited
    /\ UNCHANGED <<interactiveRest, ipc>>

\* case "r": GenerateEpics fails, or its epics replace the list
Regenerate ==
    /\ ipc = "review"
    /\ \/ /\ choice' = Choice("r", "failed")
          /\ UNCHANGED reviewEpics
       \/ /\ choice' = Choice("r", "accepted")
          /\ reviewEpics' \in GenEpicLists
    /\ UNCHANGED <<interactiveRest, ipc>>

\* case "a": an epic with the next number is appended unless the title is empty
AddEpic ==
    /\ ipc = "review"
    /\ Len(reviewEpics) < MaxReviewEpics
    /\ \E title \in {"", "T"}, desc \in {""} :
          IF title = ""
          THEN /\ choice' = Choice("a", "empty")
               /\ UNCHANGED reviewEpics
          ELSE /\ choice' = Choice("a", "accepted")
               /\ reviewEpics' = Append(reviewEpics,
                                        NewEpic(Itoa(Len(reviewEpics) + 1), title, desc, <<"1">>))
    /\ UNCHANGED <<interactiveRest, ipc>>

\* default: any other answer changes nothing
UnknownOption ==
    /\ ipc = "review"
    /\ choice' = Choice("?", "unknown")
    /\ UNCHANGED <<interactiveRest, ipc, reviewEpics>>

NextInteractive ==
    \/ PromptFails
    \/ Continue
    \/ Edit
    \/ Regenerate
    \/ AddEpic
    \/ UnknownOption

SpecInteractive == InitInteractive /\ [][NextInteractive]_vars

(***************************************************************************)
(* Properties of the multi-stage pipeline and of runParse.                 *)
(***************************************************************************)
\* Parse has returned a tree and a nil error
ParseReturnedTree ==
    /\ epicsResp # Nil
    /\ pc \in {"generated", "create", "done"}
    /\ out.err = NoErr
    /\ out.tree # Nil

Failed(errs) == {i \in DOMAIN errs : errs[i] # NoErr}

\* C1: whenever MultiStageParser.Parse returns a tree without an error, every
\* epic of the tree has at least one task and every task at least one subtask,
\* whatever the Generator answers.
C1_ParseNonEmptyChildren == ParseReturnedTree => NonEmptyChildren(out.tree)

\* C2: every tree runParse hands to the sink's CreateItems has passed
\* ParseResponse.Validate, on the single-shot, multi-stage and --from-json paths.
C2_SinkTreeValidated == sink # Nil => Validate(sink) = NoErr

\* C3: at most 3 GenerateTasks calls are in flight during stage 2 and at most
\* 5 GenerateSubtasks calls during stage 3.
C3_BoundedConcurrency ==
    /\ Holding(w2) <= Stage2Limit
    /\ Holding(w3) <= Stage3Limit

\* the stage-3 pool is full while another work item waits for a slot
C3_Witness ==
    /\ Holding(w3) = Stage3Limit
    /\ \E i \in DOMAIN w3 : w3[i] = "wait"

\* the tasks as stage 2 returned them, before stage 3 attached subtasks
WithoutSubtasks(tasks) == [j \in DOMAIN tasks |-> [tasks[j] EXCEPT !.Subtasks = <<>>]]

\* C4: in whatever order the workers complete, the epic at position i carries
\* exactly the tasks the GenerateTasks call for epic i returned, the task at
\* (i, j) exactly the subtasks the GenerateSubtasks call for it returned, and
\* epics and tasks keep the input order.  Stated of the result slots while
\* the workers run and of the tree Parse returns.
C4_DeterministicReassembly ==
    /\ \A i \in DOMAIN w2 :
          (w2[i] = "done" /\ errs2[i] = NoErr /\ pc = "stage2") =>
              /\ epics[i].TempID = epicsResp.Epics[i].TempID
              /\ [epic |-> epicsResp.Epics[i].TempID, tasks |-> epics[i].Tasks] \in log2
    /\ \A i \in DOMAIN w3 :
          (w3[i] = "done" /\ errs3[i] = NoErr) =>
              [task |-> taskRefs[i].task.TempID, subtasks |-> results3[i]] \in log3
    /\ \A k \in DOMAIN w2 :
          (pc = "stage2" /\ w2[k] # "done") => (epics[k] = ZeroEpic /\ errs2[k] = NoErr)
    /\ ParseReturnedTree =>
          /\ Len(out.tree.Epics) = Len(epicsResp.Epics)
          /\ \A i \in DOMAIN out.tree.Epics :
                LET e == out.tree.Epics[i]
                IN  /\ e.TempID = epicsResp.Epics[i].TempID
                    /\ [epic |-> e.TempID, tasks |-> WithoutSubtasks(e.Tasks)] \in log2
                    /\ \A j \in DOMAIN e.Tasks :
                          [task |-> e.Tasks[j].TempID,
                           subtasks |-> e.Tasks[j].Subtasks] \in log3

\* a later work item has completed and written its slot before an earlier one
\* has even started, and at least two epics are in play
C4_Witness ==
    /\ pc = "stage3"
    /\ Len(epics) >= 2
    /\ \E i \in DOMAIN w3, k \in DOMAIN w3 :
          /\ i < k
          /\ taskRefs[i].epicIdx < taskRefs[k].epicIdx
          /\ w3[i] = "wait"
          /\ w3[k] = "done" /\ results3[k] # <<>>

\* C5: no GenerateTasks call starts before GenerateEpics has returned
\* successfully, and no GenerateSubtasks call starts before every
\* GenerateTasks call has returned successfully.
C5_StagesNeverOverlap ==
    /\ (\E i \in DOMAIN w2 : w2[i] # "wait") => epicsResp # Nil
    /\ (\E i \in DOMAIN w3 : w3[i] # "wait") =>
          /\ WaitDone(w2)
          /\ Failed(errs2) = {}
          /\ Len(w2) = Len(epicsResp.Epics)
    /\ ~(Holding(w2) > 0 /\ Holding(w3) > 0)

\* a GenerateSubtasks call is in flight
C5_Witness == pc = "stage3" /\ Holding(w3) > 0 /\ Len(w2) >= 2

\* C6: a stage-3 work item of MultiStageGenerator whose output is unparsable
\* or empty on every attempt is marked failed after exactly 3 capability calls.
C6_FailsAfterThreeCalls ==
    \A i \in DOMAIN w3 :
        (gen = "cli" /\ w3[i] = "done" /\ errs3[i] # NoErr) => calls3[i] = 3

\* C7: a failed GenerateTasks call means no GenerateSubtasks call at all and
\* an error with no tree; a failed stage-3 work item means an error with no
\* tree and no metadata.
C7_StageFailureAborts ==
    /\ Failed(errs2) # {} =>
          /\ pc \in {"stage2", "done"}
          /\ DOMAIN w3 = {} /\ log3 = {}
          /\ out.tree = Nil
          /\ pc = "done" => out.err # NoErr
    /\ Failed(errs3) # {} =>
          /\ pc \in {"stage3", "done"}
          /\ out.tree = Nil
          /\ pc = "done" => out.err # NoErr

\* Parse has returned although one epic's tasks were generated
C7_Witness ==
    /\ pc = "done"
    /\ Failed(errs2) # {}
    /\ \E i \in DOMAIN epics : Len(epics[i].Tasks) > 0

\* C8: when epics fail in stage 2, generateTasksParallel returns only after
\* all workers have finished, returns no epic list, and its error is the one
\* of the failed epic in the lowest position, wrapped with that epic's temp id.
C8_FirstErrorOfStage2 ==
    (pc = "done" /\ Failed(errs2) # {}) =>
        LET f == CHOOSE i \in Failed(errs2) : \A k \in Failed(errs2) : i <= k
        IN  /\ WaitDone(w2)
            /\ out.tree = Nil
            /\ out.err.prefix = "stage 2 (tasks) failed"
            /\ out.err.cause.prefix = "epic"
            /\ out.err.cause.id = epicsResp.Epics[f].TempID
            /\ out.err.cause.cause = GenError(2, epicsResp.Epics[f].TempID)

\* epic 1 succeeded, epics 2 and 3 failed, and Parse has returned
C8_Witness ==
    /\ pc = "done"
    /\ Len(errs2) >= 3
    /\ errs2[1] = NoErr /\ errs2[2] # NoErr /\ errs2[3] # NoErr
    /\ Len(epics[1].Tasks) > 0


(***************************************************************************)
(* Properties of the structural reviewer.                                  *)
(***************************************************************************)
ReviewMerged == rpc = "returned" /\ reviewed # Nil

\* the skeleton lists the original's epics, each exactly once, in some order,
\* with the original titles and the original task ids and titles in place;
\* only dependency edges may differ
ReorderOnly(tree, rev) ==
    /\ Len(rev.Epics) = Len(tree.Epics)
    /\ \A i \in DOMAIN rev.Epics :
          /\ rev.Epics[i].TempID \in EpicIds(tree)
          /\ \A k \in DOMAIN rev.Epics : k # i => rev.Epics[k].TempID # rev.Epics[i].TempID
          /\ LET o == EpicWithId(tree, rev.Epics[i].TempID)
             IN  /\ rev.Epics[i].Title = o.Title
                 /\ Len(rev.Epics[i].Tasks) = Len(o.Tasks)
                 /\ \A j \in DOMAIN o.Tasks :
                       /\ rev.Epics[i].Tasks[j].TempID = o.Tasks[j].TempID
                       /\ rev.Epics[i].Tasks[j].Title = o.Tasks[j].Title

\* C9: when the skeleton only reorders the original's epics and changes
\* dependency edges, the merged tree has, for every original task, a task with
\* the same id and the same description, testing data and subtask list.
C9_ReorderPreservesContent ==
    (ReviewMerged /\ ReorderOnly(orig, reviewed)) =>
        \A i \in DOMAIN orig.Epics : \A j \in DOMAIN orig.Epics[i].Tasks :
            LET t == orig.Epics[i].Tasks[j]
            IN  \E a \in DOMAIN merged.Epics : \E b \in DOMAIN merged.Epics[a].Tasks :
                    LET mt == merged.Epics[a].Tasks[b]
                    IN  /\ mt.TempID = t.TempID
                        /\ mt.Description = t.Description
                        /\ mt.Testing = t.Testing
                        /\ mt.Subtasks = t.Subtasks

\* two epics swapped and dependency edges changed on epics and tasks
C9_Witness ==
    /\ ReviewMerged /\ ReorderOnly(orig, reviewed)
    /\ Len(orig.Epics) = 2
    /\ reviewed.Epics[1].TempID = orig.Epics[2].TempID
    /\ reviewed.Epics[1].DependsOn # orig.Epics[2].DependsOn
    /\ reviewed.Epics[1].Tasks[1].DependsOn # orig.Epics[2].Tasks[1].DependsOn
    /\ merged.Epics[1].Tasks[1].DependsOn = reviewed.Epics[1].Tasks[1].DependsOn
    /\ merged.Epics[1].Tasks[1].Subtasks = orig.Epics[2].Tasks[1].Subtasks

\* C10: when the merged tree fails Validate, ReviewAndFix returns no error,
\* WasModified = FALSE and the input tree, which the merge has left as it was.
C10_InvalidMergeFallsBack ==
    (ReviewMerged /\ Validate(merged) # NoErr) =>
        /\ review.err = NoErr
        /\ review.result.WasModified = FALSE
        /\ review.result.Response = orig
        /\ orig \in OrigTrees

\* the reviewer reports a fix, the merge differs from the input and is invalid
C10_Witness ==
    /\ ReviewMerged /\ Validate(merged) # NoErr
    /\ reviewed.ReviewNotes = "fixed"
    /\ merged # orig
    /\ Len(merged.Epics) > 0
    /\ review.result.Response = orig

\* C11: for a valid input tree and a reviewer answer that parses, the tree
\* ReviewAndFix returns passes Validate.
C11_ReviewKeepsValid ==
    (ReviewMerged /\ Validate(orig) = NoErr) =>
        /\ review.err = NoErr
        /\ Validate(review.result.Response) = NoErr

\* a reviewer answer that injects a new epic and whose merge is valid and
\* returned in place of the input, and the input was valid
C11_Witness ==
    /\ ReviewMerged /\ Validate(orig) = NoErr
    /\ review.result.Response = merged
    /\ merged # orig
    /\ \E i \in DOMAIN merged.Epics : merged.Epics[i].TempID = NewEpicId
    /\ review.result.WasModified

\* the slots of a stage that hold the error of a cancelled context
CancelledSlots(errs) == {i \in DOMAIN errs : errs[i] # NoErr /\ errs[i].cause.kind = "cancelled"}

\* C15, amended: once the caller has cancelled during stage 2 or stage 3, no
\* worker starts a capability call any more and a stage-3 item whose attempt
\* fails is not retried; when the cancellation falls in stage 2, or in stage 3
\* while a worker has yet to issue its call, Parse returns an error and no tree.
C15_CancelStopsCalls ==
    /\ lateCalls = 0
    /\ \A i \in DOMAIN w3 :
          (w3[i] = "done" /\ calls3[i] = 0) => i \in CancelledSlots(errs3)
    /\ (ctx.cancelled /\ ctx.pending /\ WaitDone(w2) /\ ctx.stage = "stage2") =>
          CancelledSlots(errs2) # {}
    /\ (ctx.cancelled /\ ctx.pending /\ WaitDone(w3) /\ ctx.stage = "stage3") =>
          CancelledSlots(errs3) # {}
    /\ (pc = "done" /\ ctx.cancelled /\ (ctx.pending \/ ctx.stage = "stage2")) =>
          /\ out.tree = Nil
          /\ out.err # NoErr

\* cancelled in stage 3 with a worker still waiting: one item was refused its
\* retry after a single call, another never called, and Parse has returned
C15_Witness ==
    /\ pc = "done"
    /\ ctx.cancelled /\ ctx.stage = "stage3" /\ ctx.pending
    /\ \E i \in CancelledSlots(errs3) : calls3[i] = 1
    /\ \E i \in CancelledSlots(errs3) : calls3[i] = 0
    /\ out.tree = Nil

\* C15, as stated: whenever the caller has cancelled during stage 2 or stage 3,
\* no call is started afterwards and Parse returns an error rather than a tree.
C15_AsStated ==
    /\ lateCalls = 0
    /\ (pc \in {"generated", "done"} /\ ctx.cancelled) =>
          /\ out.tree = Nil
          /\ out.err # NoErr

\* C16: when the stage-1 answer of MultiStageGenerator carries no epics, Parse
\* returns the stage-1 error and no tree, and no stage-2 or stage-3 call is made.
C16_ZeroEpicsFails ==
    (gen = "cli" /\ log1 = 0) =>
        /\ pc = "done"
        /\ out.tree = Nil
        /\ out.err = Wrap("stage 1 (epics) failed", <<>>, GenError(1, <<>>))
        /\ epicsResp = Nil
        /\ w2 = <<>> /\ w3 = <<>>
        /\ log2 = {} /\ log3 = {}

\* the Claude CLI answered with an empty epic list and Parse has returned
C16_Witness ==
    /\ gen = "cli" /\ log1 = 0
    /\ pc = "done"
    /\ out.err # NoErr

\* C17: a single-shot generation issues exactly one capability call; when the
\* call fails, or its output fails extraction or validation, the error is
\* returned after that one call.
C17_SingleShotOneCall ==
    /\ ssCalls <= 1
    /\ (ssCalls > 0 /\ pc \in {"generated", "create", "done"}) => ssCalls = 1

\* the gap-validation pass has run
GapValidated == gap \in {"ok", "warning", "panic"}

\* C18: gap validation never changes the tree, and a failure of it (the call
\* fails, the text has no JSON, its last '}' precedes its first '{', or the
\* JSON is malformed) is a warning only: the run goes on to the sink and hands
\* it the tree that generation returned.
C18_GapValidationOnlyWarns ==
    GapValidated =>
        /\ gap \in {"ok", "warning"}
        /\ pc \in {"create", "done", "failed"}
        /\ out.tree # Nil
        /\ sink # Nil => sink = out.tree

\* C19: when the sink could not create an item, or returned an error, the run
\* has written a checkpoint file by the time it ends.
C19_CheckpointOnSinkFailure ==
    (created # Nil /\ (created.Failed # {} \/ created.err # NoErr)) => checkpoint # Nil

\* the lines of a text: the newline-terminated ones, and a last one that is
\* not empty and has no newline
Lines(text) ==
    Cardinality({i \in DOMAIN text : text[i] = "\n"})
        + (IF Len(text) > 0 /\ text[Len(text)] # "\n" THEN 1 ELSE 0)

\* C20: --multi-stage alone forces multi-stage and --single-shot alone forces
\* single-shot; with neither flag and a threshold T > 0, a PRD of fewer than T
\* lines is parsed single-shot and one of T lines or more multi-stage.
C20_ThresholdStrategy ==
    strategy # "none" =>
        /\ (cfg.multiStage /\ ~cfg.singleShot) => strategy = "multi-stage"
        /\ (cfg.singleShot /\ ~cfg.multiStage) => strategy = "single-shot"
        /\ (~cfg.multiStage /\ ~cfg.singleShot /\ cfg.smartParseLines > 0) =>
              strategy = IF Lines(cfg.prdContent) < cfg.smartParseLines
                         THEN "single-shot" ELSE "multi-stage"

\* the temp ids of a list of items, in list order
IdsOf(items) == [j \in DOMAIN items |-> items[j].TempID]

\* C22: an epic of the reviewer's skeleton whose id no original epic has is in
\* the tree ReviewAndFix returns, with the title, the dependency list and the
\* tasks the reviewer gave it (a nil list and an empty list are the same
\* empty sequence here).
C22_InjectedEpicReturned ==
    ReviewMerged =>
        \A i \in DOMAIN reviewed.Epics :
            LET r == reviewed.Epics[i]
            IN  ~HasId(orig.Epics, r.TempID) =>
                    /\ review.err = NoErr
                    /\ \E k \in DOMAIN review.result.Response.Epics :
                          LET e == review.result.Response.Epics[k]
                          IN  /\ e.TempID = r.TempID
                              /\ e.Title = r.Title
                              /\ e.DependsOn = r.DependsOn
                              /\ IdsOf(e.Tasks) = IdsOf(r.Tasks)

\* mergeReviewedStructure has returned
MergeDone == rpc = "merged"

C27_UnmodifiedMeansSameTree ==
    (rpc = "returned" /\ review.err = NoErr /\ ~review.result.WasModified) =>
        review.result.Response.Epics = orig.Epics

\* the original tasks with this id, over all epics
OrigTasksWithId(tree, id) ==
    UNION {{tree.Epics[a].Tasks[b] : b \in {b \in DOMAIN tree.Epics[a].Tasks :
                                                tree.Epics[a].Tasks[b].TempID = id}} :
              a \in DOMAIN tree.Epics}

\* C28: for a reviewed epic with the id of an original epic, the merged epic
\* has the original's task list when the reviewed epic lists no tasks;
\* otherwise its tasks have the reviewed ids in the reviewed order, a task with
\* the id of an original task (of any epic) has that task's description,
\* testing data and subtasks, and an original task the reviewed list leaves
\* out is not in the merged epic.
C28_TaskListFollowsReview ==
    MergeDone =>
        \A i \in DOMAIN reviewed.Epics :
            LET r == reviewed.Epics[i]
                m == merged.Epics[i]
            IN  r.TempID \in EpicIds(orig) =>
                    LET o == EpicWithId(orig, r.TempID)
                    IN  /\ Len(r.Tasks) = 0 => m.Tasks = o.Tasks
                        /\ Len(r.Tasks) > 0 =>
                              /\ IdsOf(m.Tasks) = IdsOf(r.Tasks)
                              /\ \A j \in DOMAIN r.Tasks :
                                    \A t \in OrigTasksWithId(orig, r.Tasks[j].TempID) :
                                        /\ m.Tasks[j].Description = t.Description
                                        /\ m.Tasks[j].Testing = t.Testing
                                        /\ m.Tasks[j].Subtasks = t.Subtasks
                              /\ \A b \in DOMAIN o.Tasks :
                                    (\A j \in DOMAIN r.Tasks : r.Tasks[j].TempID # o.Tasks[b].TempID)
                                        => \A j \in DOMAIN m.Tasks :
                                              m.Tasks[j].TempID # o.Tasks[b].TempID

\* a reviewed epic lists the tasks of another original epic: the merged epic
\* has them with their subtasks, and none of its own original tasks
C28_Witness ==
    /\ MergeDone
    /\ \E i \in DOMAIN reviewed.Epics :
          LET r == reviewed.Epics[i]
              m == merged.Epics[i]
          IN  /\ r.TempID \in EpicIds(orig)
              /\ Len(r.Tasks) > 0
              /\ \A j \in DOMAIN m.Tasks :
                    /\ m.Tasks[j].Subtasks # <<>>
                    /\ \A b \in DOMAIN EpicWithId(orig, r.TempID).Tasks :
                          EpicWithId(orig, r.TempID).Tasks[b].TempID # m.Tasks[j].TempID

\* the positions of a character in a text
Positions(text, c) == {i \in DOMAIN text : text[i] = c}

\* the braces of a text nest: no prefix closes more than it opens, and the
\* whole text closes what it opens
Balanced(text) ==
    LET depth(n) == Cardinality({i \in 1..n : text[i] = "{"})
                        - Cardinality({i \in 1..n : text[i] = "}"})
    IN  /\ \A n \in DOMAIN text : depth(n) >= 0
        /\ depth(Len(text)) = 0

\* the text from the first '{' to the last '}' of a text that has both, in
\* this order
FirstToLast(text) ==
    LET open == Positions(text, "{")
        close == Positions(text, "}")
        first == CHOOSE i \in open : \A j \in open : i <= j
        last == CHOOSE i \in close : \A j \in close : j <= i
    IN  SubSeq(text, first, last)

\* a text without a balanced brace span
NoBalancedSpan(text) ==
    \/ Positions(text, "{") = {}
    \/ Positions(text, "}") = {}
    \/ \A i \in Positions(text, "{"), j \in Positions(text, "}") : j < i
    \/ ~Balanced(FirstToLast(text))

\* both routines returned an error
Rejected == extracted.stage # "ok" /\ extracted.single # "ok"

CountsAgree(r) ==
    /\ r.Metadata.TotalEpics = Cardinality(DOMAIN r.Epics)
    /\ r.Metadata.TotalTasks =
          Cardinality({<<i, j>> \in (DOMAIN r.Epics) \X (1..MaxTaskRefs + MaxOrigTasks + 1) :
                          j \in DOMAIN r.Epics[i].Tasks})
    /\ r.Metadata.TotalSubtasks =
          Cardinality(UNION {UNION {{<<i, j, x>> : x \in DOMAIN r.Epics[i].Tasks[j].Subtasks} :
                                       j \in DOMAIN r.Epics[i].Tasks} :
                                i \in DOMAIN r.Epics})

\* C14: in every tree MultiStageParser.Parse returns and in every tree the
\* reviewer merge produces, TotalEpics, TotalTasks and TotalSubtasks equal the
\* numbers of epics, of tasks over all epics and of subtasks over all tasks.
C14_MetadataCounts ==
    /\ ParseReturnedTree => CountsAgree(out.tree)
    /\ ReviewMerged =>
          /\ CountsAgree(merged)
          /\ Validate(merged) = NoErr => review.result.Response.Metadata = merged.Metadata

\* Parse returned 1 epic with 2 tasks of 2 subtasks each: counts 1, 2, 4
C14_Witness ==
    /\ ParseReturnedTree
    /\ Len(out.tree.Epics) = 1
    /\ Len(out.tree.Epics[1].Tasks) = 2
    /\ \A j \in 1..2 : Len(out.tree.Epics[1].Tasks[j].Subtasks) = 2
    /\ out.tree.Metadata = ResponseMetadata(1, 2, 4)

(***************************************************************************)
(* Properties of ParseResponse.Validate.                                   *)
(***************************************************************************)
Validated == verr # Nil

\* the rule of the data model, stated without the order of the checks
WellFormed(r) ==
    /\ r.Project.ProductName # ""
    /\ Len(r.Epics) >= 1
    /\ \A i \in DOMAIN r.Epics :
          /\ r.Epics[i].Title # ""
          /\ Len(r.Epics[i].Tasks) >= 1
          /\ \A j \in DOMAIN r.Epics[i].Tasks :
                /\ r.Epics[i].Tasks[j].Title # ""
                /\ Len(r.Epics[i].Tasks[j].Subtasks) >= 1

\* C12: Validate returns nil exactly when the product name is non-empty, there
\* is an epic, every epic has a title and a task, and every task a title and a
\* subtask; otherwise it returns a ValidationError.
C12_ValidateIffWellFormed ==
    Validated =>
        /\ (verr = NoErr) <=> WellFormed(vtree)
        /\ verr # NoErr => verr.kind = "validation"

\* a tree of two well-formed epics was accepted
C12_Witness ==
    /\ Validated /\ verr = NoErr
    /\ Len(vtree.Epics) = 2
    /\ \A i \in DOMAIN vtree.Epics : Len(vtree.Epics[i].Tasks) = 1

\* every violation of a tree, as the path of the field and its place in the
\* checking order: product name, epic list, then epic by epic its title, its
\* task list, and task by task the title and the subtask list
Violations(r) ==
    LET w == 2 + 2 * (MaxValTasks + 1)
    IN  (IF r.Project.ProductName = ""
         THEN {[rank |-> 0, err |-> ValidationError("project.product_name", -1, -1)]} ELSE {})
        \cup
        (IF Len(r.Epics) = 0
         THEN {[rank |-> 1, err |-> ValidationError("epics", -1, -1)]} ELSE {})
        \cup
        {[rank |-> 2 + (i - 1) * w, err |-> ValidationError("epics[i].title", i - 1, -1)] :
            i \in {k \in DOMAIN r.Epics : r.Epics[k].Title = ""}}
        \cup
        {[rank |-> 3 + (i - 1) * w, err |-> ValidationError("epics[i].tasks", i - 1, -1)] :
            i \in {k \in DOMAIN r.Epics : Len(r.Epics[k].Tasks) = 0}}
        \cup
        UNION {{[rank |-> 2 + (i - 1) * w + 2 * j,
                 err |-> ValidationError("epics[i].tasks[j].title", i - 1, j - 1)] :
                    j \in {k \in DOMAIN r.Epics[i].Tasks : r.Epics[i].Tasks[k].Title = ""}} :
               i \in DOMAIN r.Epics}
        \cup
        UNION {{[rank |-> 3 + (i - 1) * w + 2 * j,
                 err |-> ValidationError("epics[i].tasks[j].subtasks", i - 1, j - 1)] :
                    j \in {k \in DOMAIN r.Epics[i].Tasks :
                              Len(r.Epics[i].Tasks[k].Subtasks) = 0}} :
               i \in DOMAIN r.Epics}

\* C13: of several violations Validate reports the first in checking order,
\* by its field path; a tree whose only epic has no tasks yields epics[0].tasks.
C13_FirstViolationReported ==
    (Validated /\ Violations(vtree) # {}) =>
        LET first == CHOOSE v \in Violations(vtree) :
                        \A u \in Violations(vtree) : v.rank <= u.rank
        IN  /\ verr = first.err
            /\ (/\ vtree.Project.ProductName # ""
                /\ Len(vtree.Epics) = 1
                /\ vtree.Epics[1].Title # ""
                /\ Len(vtree.Epics[1].Tasks) = 0) =>
                   (verr.Field = "epics[i].tasks" /\ verr.i = 0)

\* the first epic's task lacks subtasks and the second epic lacks a title:
\* the task of the first epic is reported
C13_Witness ==
    /\ Validated
    /\ Cardinality(Violations(vtree)) >= 2
    /\ Len(vtree.Epics) = 2
    /\ vtree.Epics[2].Title = ""
    /\ verr = ValidationError("epics[i].tasks[j].subtasks", 0, 0)

\* the step writes slot i of a result or error array of one fan-out
SlotWritten(results, errs, i) == results'[i] # results[i] \/ errs'[i] # errs[i]

\* the only slot a step writes is the slot of the one worker that finishes in it
OwnSlotOnly(w, results, errs) ==
    \A i \in DOMAIN w :
        SlotWritten(results, errs, i) =>
            /\ w[i] # "done" /\ w'[i] = "done"
            /\ \A k \in DOMAIN w \ {i} :
                  w'[k] = w[k] /\ ~SlotWritten(results, errs, k)

StageSlots ==
    /\ (pc = "stage2" /\ pc' = "stage2") => OwnSlotOnly(w2, epics, errs2)
    /\ (pc = "stage3" /\ pc' = "stage3") => OwnSlotOnly(w3, results3, errs3)
    /\ (pc = "stage2" /\ pc' # "stage2") => WaitDone(w2)
    /\ (pc = "stage3" /\ pc' # "stage3") => WaitDone(w3)

\* C23: during the stage-2 and stage-3 fan-outs a step writes a result or
\* error slot only as the worker of that index finishes, so a slot has one
\* writer and is written once; the code after wg.Wait(), which scans the error
\* slots and reads the result slots, runs only when every worker is done.
C23_WorkersOwnTheirSlots == [][StageSlots]_vars

\* stage 2 with one worker still in its call, a later one done with its result
\* written and another done with its error written
C23_Witness ==
    /\ pc = "stage2"
    /\ \E i \in DOMAIN w2, k \in DOMAIN w2, l \in DOMAIN w2 :
          /\ i < k /\ k # l
          /\ w2[i] = "call" /\ epics[i] = ZeroEpic /\ errs2[i] = NoErr
          /\ w2[k] = "done" /\ epics[k] # ZeroEpic /\ errs2[k] = NoErr
          /\ w2[l] = "done" /\ epics[l] = ZeroEpic /\ errs2[l] # NoErr

\* generateTasksParallel has returned to Parse
Stage2Over == epicsResp # Nil /\ pc \notin {"start", "stage1", "stage2"}

\* the one call a stage-2 worker makes: for the epic summary at its position
OneCallFor(i) == calls2[i] = <<epicsResp.Epics[i].TempID>>

\* C24: a stage-2 worker issues no call while it waits for the semaphore and
\* exactly one from then on, for the epic summary at its position and whatever
\* the call returns; when stage 2 is over the calls issued are as many as the
\* epic summaries of stage 1.
C24_OneCallPerEpic ==
    /\ pc = "stage2" =>
          \A i \in DOMAIN w2 :
              IF w2[i] = "wait" THEN calls2[i] = <<>> ELSE OneCallFor(i)
    /\ Stage2Over =>
          /\ DOMAIN calls2 = DOMAIN epicsResp.Epics
          /\ \A i \in DOMAIN calls2 : OneCallFor(i)
          /\ SumSeq([i \in DOMAIN calls2 |-> Len(calls2[i])]) = Len(epicsResp.Epics)

\* stage 2 has ended in failure over three epics or more: one call succeeded
\* and one failed
C24_Witness ==
    /\ pc = "done"
    /\ Len(calls2) >= 3
    /\ \E i \in DOMAIN errs2 : errs2[i] # NoErr
    /\ \E i \in DOMAIN errs2 : errs2[i] = NoErr /\ epics[i] # ZeroEpic

\* no worker of the fan-out still waits for a slot or holds one
AllReleased(w) == \A i \in DOMAIN w : w[i] \notin {"wait", "call"}

\* C26: under fair scheduling and with every issued capability call returning,
\* generateTasksParallel and generateSubtasksParallel return, whatever the
\* number of workers: the stage is left, and by then every worker has had its
\* semaphore slot and given it back.
C26_FanOutsReturn ==
    /\ (pc = "stage2") ~> (pc # "stage2" /\ AllReleased(w2))
    /\ (pc = "stage3") ~> (pc # "stage3" /\ AllReleased(w3))

\* stage 2 with more workers than the pool holds: the pool is full and one
\* worker still waits for a slot
C26_Witness ==
    /\ pc = "stage2"
    /\ Len(w2) > Stage2Limit
    /\ Holding(w2) = Stage2Limit
    /\ \E i \in DOMAIN w2 : w2[i] = "wait"

\* the external ids of the items in result.Created
CreatedIds(res) == {res.Created[k].ExternalID : k \in DOMAIN res.Created}

\* the item at pos of the tree handed to the adapter is in result.Created
WasCreated(pos) == ExternalID(pos) \in CreatedIds(created.result)

CreatedOfType(res, type) == Cardinality({k \in DOMAIN res.Created : res.Created[k].Type = type})

ParentsCreated ==
    \A pos \in ItemPositions(sink) :
        (Len(pos) > 1 /\ WasCreated(pos)) => WasCreated(SubSeq(pos, 1, Len(pos) - 1))

EdgesBetweenCreated ==
    \A k \in DOMAIN created.result.Dependencies :
        /\ created.result.Dependencies[k].From \in CreatedIds(created.result)
        /\ created.result.Dependencies[k].To \in CreatedIds(created.result)

StatsAgree ==
    LET res == created.result
    IN  /\ res.Stats.Epics = CreatedOfType(res, "epic")
        /\ res.Stats.Tasks = CreatedOfType(res, "task")
        /\ res.Stats.Subtasks = CreatedOfType(res, "subtask")
        /\ res.Stats.Dependencies = Len(res.Dependencies)

\* C29: in the result of BeadsAdapter.CreateItems a task is created only if
\* its epic was created and a subtask only if its task was created, every
\* recorded dependency connects two created items, and the four counters of
\* Stats equal the numbers of created epics, tasks, subtasks and recorded
\* dependencies, whichever creations and links bd refuses.
C29_CreatedItemsConsistent ==
    pc = "done" => (ParentsCreated /\ EdgesBetweenCreated /\ StatsAgree)

\* the parts of C29 that do not depend on the temp ids being distinct
C29_EdgesAndStats ==
    pc = "done" => (EdgesBetweenCreated /\ StatsAgree)

\* the temp ids of a list are "1", "2", ... in list order
Sequential(eps) == \A i \in DOMAIN eps : eps[i].TempID = Itoa(i)

UniqueTempIDs(eps) ==
    \A i \in DOMAIN eps, k \in DOMAIN eps : eps[i].TempID = eps[k].TempID => i = k

ReviewStep ==
    /\ (choice'.key = "e" /\ choice'.outcome \in {"empty", "failed"}) =>
          reviewEpics' = reviewEpics
    /\ (choice'.key = "e" /\ choice'.outcome = "accepted") =>
          (Len(reviewEpics') > 0 /\ Sequential(reviewEpics'))
    /\ (Sequential(reviewEpics) /\ choice'.key # "r") =>
          (Sequential(reviewEpics') /\ UniqueTempIDs(reviewEpics'))

====
